---- MODULE Spec2Model ----
(***************************************************************************)
(* A model of py-slippi's streaming replay parser (slippi/parse.py with    *)
(* the event decoders of slippi/event.py and the primitive reader of       *)
(* slippi/util.py).                                                        *)
(*                                                                         *)
(* The byte source is drawn lazily: every read takes the next bytes of the *)
(* file from a small set of inputs.  A payload is represented by its       *)
(* decoded fields and by the number of bytes the source delivers for it,   *)
(* so that every unpack is decided the way util.unpack decides it: on the  *)
(* number of bytes left in the stream it reads.                            *)
(***************************************************************************)
EXTENDS Integers, Sequences, FiniteSets, TLC

VARIABLES
    pc,            \* where parse() stands: "start", "payloads", "events", "metadata", "done", "error"
    handlers,      \* the ParseEvent keys of the handlers dict given to parse()
    pos,           \* input.tell(): bytes consumed from the source
    src_eof,       \* the source has delivered its last byte (a read came back short)
    length,        \* the declared length of the raw block (_parse)
    payload_sizes, \* the dict returned by _parse_event_payloads
    total_size,    \* _parse_events: the byte budget of the event block
    bytes_read,    \* _parse_events: bytes charged so far
    event,         \* _parse_events: the class of the object _parse_event returned last
    current_frame, \* _parse_events: the Frame being accumulated
    calls,         \* handler invocations, in order
    log,           \* log.info messages, in order
    err,           \* the exception that ended the parse ("none" while it runs)
    table,         \* history: the leading payload-table event as the source held it
    consumed,      \* history: the events read from the source so far, with their outcome
    created,       \* history: number of Frame objects constructed
    finalized,     \* history: the Frames on which _finalize was called, in order
    err_pos,       \* the pos attribute of the ParseError that ended the parse
    stream,        \* a decoder called on its own: the payload stream it is given
    result,        \* a decoder called on its own: what the last call returned or raised
    input,         \* the input object of parse(): whether it has a name, whether it is seekable
    filename,      \* the filename attribute of the ParseError that ended the parse
    game           \* the Game object of game.py and the source its constructor reads

vars == << pc, handlers, pos, src_eof, length, payload_sizes, total_size,
           bytes_read, event, current_frame, calls, log, err, table,
           consumed, created, finalized, err_pos, stream, result, input, filename,
           game >>

\* the state of the decoders called on their own
dvars == << stream, result >>

(***************************************************************************)
(* Bounds of the model.                                                    *)
(***************************************************************************)
\* the source holds at most this many events after the payload table
MaxEvents == 2

(***************************************************************************)
(* Program constants.                                                      *)
(***************************************************************************)
EVENT_PAYLOADS == 53
GAME_START == 54
FRAME_PRE == 55
FRAME_POST == 56
GAME_END == 57
FRAME_START == 58
ITEM == 59
FRAME_END == 60

EventType == { EVENT_PAYLOADS, GAME_START, FRAME_PRE, FRAME_POST, GAME_END,
               FRAME_START, ITEM, FRAME_END }

\* a Frame with a slot for a fifth port
PortsFive == 0 .. 4

\* util.PORTS = range(4); the list of four slots of Frame.__init__
PORTS == 0 .. 3

\* the values of the ParseEvent members, the keys of the handlers dict
METADATA == "metadata"
METADATA_RAW == "metadata_raw"
START == "start"
FRAME == "frame"
END == "end"
ParseEvent == { METADATA, METADATA_RAW, START, FRAME, END,
                "frame_start", "item", "frame_end" }

(***************************************************************************)
(* util.unpack: the outcome of reading `size` bytes of a stream in which   *)
(* `remaining` bytes are left.  An empty read raises util.EOFError, a      *)
(* short but non-empty read makes struct.unpack raise struct.error.        *)
(***************************************************************************)
unpack(size, remaining) ==
    IF remaining <= 0 THEN "EOFError"
    ELSE IF remaining < size THEN "struct.error"
    ELSE "none"

\* the first exception of a sequence of outcomes, "none" when there is none
RECURSIVE FirstExc(_)
FirstExc(outcomes) ==
    IF outcomes = << >> THEN "none"
    ELSE IF Head(outcomes) # "none" THEN Head(outcomes)
    ELSE FirstExc(Tail(outcomes))

(***************************************************************************)
(* The sub-stream io.BytesIO(event_stream.read(size)) of _parse_event: the *)
(* source delivers `size` bytes unless it ends after `cut` bytes.          *)
(***************************************************************************)
NoCut == -1
Got(size, cut) == IF cut = NoCut \/ cut >= size THEN size ELSE cut
Short(size, cut) == cut # NoCut /\ cut < size

(***************************************************************************)
(* Start._parse.  The fixed fields are read by unpack at these offsets of  *)
(* the payload (the stream.read calls between them skip without failing):  *)
(* version, is_teams, stage, then (character, type, stocks, costume) and    *)
(* team of each port, then random_seed.                                     *)
(***************************************************************************)
StartPlayersOffset == 4 + 8 + 1 + 5 + 2 + 80
StartPlayerSize == 4 + 5 + 1 + 26
StartSeedOffset == StartPlayersOffset + 4 * StartPlayerSize + 72
StartCoreSize == StartSeedOffset + 4

\* the fields read before the players only
StartCoreFieldsHeader == << <<0, 4>>, <<12, 1>>, <<18, 2>> >>

StartCoreFields ==
    << <<0, 4>>, <<12, 1>>, <<18, 2>> >>
    \o << <<StartPlayersOffset, 4>>, <<StartPlayersOffset + 9, 1>> >>
    \o << <<StartPlayersOffset + StartPlayerSize, 4>>,
          <<StartPlayersOffset + StartPlayerSize + 9, 1>> >>
    \o << <<StartPlayersOffset + 2 * StartPlayerSize, 4>>,
          <<StartPlayersOffset + 2 * StartPlayerSize + 9, 1>> >>
    \o << <<StartPlayersOffset + 3 * StartPlayerSize, 4>>,
          <<StartPlayersOffset + 3 * StartPlayerSize + 9, 1>> >>
    \o << <<StartSeedOffset, 4>> >>

\* ports whose (dash_back, shield_drop) pair was read before the block ended
StartUcfRead(n) ==
    IF n - StartCoreSize >= 8 * 4 THEN 4
    ELSE IF n <= StartCoreSize THEN 0
    ELSE (n - StartCoreSize) \div 8

StartParse(n) ==
    LET core == FirstExc([k \in 1 .. Len(StartCoreFields) |->
                    unpack(StartCoreFields[k][2], n - StartCoreFields[k][1])])
        u    == StartUcfRead(n)
        \* the unpack('LL') that ends the UCF loop: EOFError is caught there
        ucf  == IF u = 4 THEN "none" ELSE unpack(8, n - StartCoreSize - 8 * u)
    IN  IF core # "none" THEN [exc |-> core, tell |-> n]
        ELSE IF ucf = "struct.error" THEN [exc |-> ucf, tell |-> n]
        ELSE [exc |-> "none", tell |-> n]

(***************************************************************************)
(* End._parse: method, then the optional lras byte; Method is a strict     *)
(* enumeration.                                                            *)
(***************************************************************************)
EndMethod == { 0, 1, 2, 3, 7 }

EndParse(n, method) ==
    IF unpack(1, n) # "none" THEN [exc |-> unpack(1, n), tell |-> n]
    ELSE IF method \notin EndMethod
         THEN [exc |-> "ValueError", tell |-> IF n >= 2 THEN 2 ELSE n]
    ELSE [exc |-> "none", tell |-> IF n >= 2 THEN 2 ELSE n]

(***************************************************************************)
(* Frame.Event.Id / Frame.Event.PortId: the key of a frame-scoped event.   *)
(***************************************************************************)
IdSize == 4
PortIdSize == 4 + 1 + 1

IdParse(code, n) ==
    LET size == IF code \in { FRAME_PRE, FRAME_POST } THEN PortIdSize ELSE IdSize
    IN  [exc |-> unpack(size, n), tell |-> IF n < size THEN n ELSE size]

(***************************************************************************)
(* Frame, Frame.Port and Frame.Port.Data objects.  A Data slot holds the   *)
(* payload merged into it, NoData (None) before that.  An absent object is *)
(* a record of the same shape with its presence flag off.                  *)
(***************************************************************************)
NoData == 0
Data == [pre |-> NoData, post |-> NoData]
NoPort == [present |-> FALSE, leader |-> Data, has_follower |-> FALSE, follower |-> Data]
Port == [present |-> TRUE, leader |-> Data, has_follower |-> FALSE, follower |-> Data]

\* one Frame object serves the whole parse
FrameReused(id, index) ==
    [open |-> TRUE, id |-> 1, index |-> index,
     ports |-> [p \in PORTS |-> NoPort], items |-> << >>,
     start |-> NoData, end |-> FALSE, final |-> FALSE]

\* Frame.__init__; `id` tells the Frame objects of one parse apart
Frame(id, index) ==
    [open |-> TRUE, id |-> id, index |-> index,
     ports |-> [p \in PORTS |-> NoPort], items |-> << >>,
     start |-> NoData, end |-> FALSE, final |-> FALSE]

\* current_frame = None
NoFrame == [Frame(0, 0) EXCEPT !.open = FALSE]

\* Frame._finalize: ports and items become tuples
Finalize(f) == [f EXCEPT !.final = TRUE]

(***************************************************************************)
(* The merge of one Pre or Post event into the Frame (_parse_events): the  *)
(* port is created on its first event, the follower Data on the first      *)
(* follower event, and the slot takes the event's data.                     *)
(***************************************************************************)
\* every event makes a new Port for its port
MergePortFresh(f, code, port, follower, data) ==
    LET p1 == IF follower THEN [Port EXCEPT !.has_follower = TRUE] ELSE Port
        p2 == IF follower
              THEN IF code = FRAME_PRE THEN [p1 EXCEPT !.follower.pre = data]
                                       ELSE [p1 EXCEPT !.follower.post = data]
              ELSE IF code = FRAME_PRE THEN [p1 EXCEPT !.leader.pre = data]
                                       ELSE [p1 EXCEPT !.leader.post = data]
    IN  [f EXCEPT !.ports[port] = p2]

MergePort(f, code, port, follower, data) ==
    LET p0 == IF f.ports[port].present THEN f.ports[port] ELSE Port
        p1 == IF follower THEN [p0 EXCEPT !.has_follower = TRUE] ELSE p0
        p2 == IF follower
              THEN IF code = FRAME_PRE THEN [p1 EXCEPT !.follower.pre = data]
                                       ELSE [p1 EXCEPT !.follower.post = data]
              ELSE IF code = FRAME_PRE THEN [p1 EXCEPT !.leader.pre = data]
                                       ELSE [p1 EXCEPT !.leader.post = data]
    IN  [f EXCEPT !.ports[port] = p2]

\* Frame.Item._parse and Frame.Start._parse on the bytes left after the Id
ItemSize == 2 + 1 + 5 * 4 + 2 + 4 + 4
FrameStartSize == 4
BodyExc(code, rest) ==
    IF code = ITEM THEN unpack(ItemSize, rest)
    ELSE IF code = FRAME_START THEN unpack(FrameStartSize, rest)
    ELSE "none"

\* the exception of the merge: an out-of-range port, a short Item or Start body
MergeExc(code, port, rest) ==
    IF code \in { FRAME_PRE, FRAME_POST }
    THEN IF port \in PORTS THEN "none" ELSE "IndexError"
    ELSE BodyExc(code, rest)

Merge(f, code, port, follower, data) ==
    IF code \in { FRAME_PRE, FRAME_POST } THEN MergePort(f, code, port, follower, data)
    ELSE IF code = ITEM THEN [f EXCEPT !.items = Append(@, data)]
    ELSE IF code = FRAME_START THEN [f EXCEPT !.start = data]
    ELSE [f EXCEPT !.end = TRUE]

(***************************************************************************)
(* The inputs: what the source holds at each read.                         *)
(***************************************************************************)
FIRST_FRAME_INDEX == -123

\* the container prefix and the declared length of the raw block
HeaderSize == 11 + 4
StdTableBytes == 2 + 3 * 8
Lengths == { 0, StdTableBytes, StdTableBytes + 1, StdTableBytes + 10,
             StdTableBytes + 70, StdTableBytes + 430 }

HeaderInputs ==
    [match : { TRUE }, cut : { NoCut }, length : Lengths]
    \cup [match : { FALSE }, cut : { NoCut }, length : { 0 }]
    \cup [match : { TRUE }, cut : { 11, 13 }, length : { 0 }]

\* payload tables: (code, size) pairs as they stand in the file
StdPairs ==
    << <<GAME_START, StartCoreSize + 32 + 64 + 2>>, <<FRAME_PRE, PortIdSize + 57>>,
       <<FRAME_POST, PortIdSize + 45>>, <<GAME_END, 2>>, <<FRAME_START, IdSize + 4>>,
       <<ITEM, IdSize + ItemSize>>, <<FRAME_END, IdSize>>, <<255, 2>> >>
OldPairs ==
    << <<GAME_START, StartCoreSize>>, <<FRAME_PRE, PortIdSize + 52>>,
       <<FRAME_POST, PortIdSize + 27>>, <<GAME_END, 1>> >>
DupPairs ==
    << <<GAME_START, StartCoreSize>>, <<255, 1>>, <<FRAME_END, IdSize>>, <<255, 2>>,
       <<250, 0>> >>

TableInputs ==
    { [code |-> EVENT_PAYLOADS, this_size |-> 3 * Len(p) + 1, pairs |-> p, cut |-> NoCut] :
        p \in { StdPairs, OldPairs, DupPairs } }
    \cup { [code |-> c, this_size |-> 3 * Len(StdPairs) + 1, pairs |-> StdPairs, cut |-> NoCut] :
        c \in { GAME_START, 16 } }
    \cup { [code |-> EVENT_PAYLOADS, this_size |-> n, pairs |-> << >>, cut |-> NoCut] :
        n \in { 0, 3 } }
    \cup { [code |-> EVENT_PAYLOADS, this_size |-> 3 * Len(DupPairs) + 1, pairs |-> DupPairs,
            cut |-> k] : k \in { 0, 1, 2 + 3 + 3 + 1 } }

\* events: the code byte, the decoded key and value bytes, and the cut of the source
FrameIndices == { FIRST_FRAME_INDEX, FIRST_FRAME_INDEX + 1 }

Ev(code, frame, port, follower, raw, cut) ==
    [code |-> code, frame |-> frame, port |-> port, follower |-> follower,
     raw |-> raw, cut |-> cut]

PortEvents(indices) ==
    { Ev(c, i, k[1], k[2], 0, NoCut) :
        c \in { FRAME_PRE, FRAME_POST }, i \in indices,
        k \in { <<0, FALSE>>, <<0, TRUE>>, <<3, FALSE>> } }
    \cup { Ev(FRAME_PRE, i, 4, FALSE, 0, NoCut) : i \in indices }

FrameEvents(indices) ==
    PortEvents(indices)
    \cup { Ev(c, i, 0, FALSE, 0, NoCut) : c \in { FRAME_START, ITEM, FRAME_END }, i \in indices }

GameEvents ==
    { Ev(GAME_START, 0, 0, FALSE, 0, NoCut),
      Ev(GAME_END, 0, 0, FALSE, 2, NoCut), Ev(GAME_END, 0, 0, FALSE, 4, NoCut),
      Ev(255, 0, 0, FALSE, 0, NoCut), Ev(254, 0, 0, FALSE, 0, NoCut) }

\* events cut short by the end of the source
CutEvents ==
    { Ev(GAME_START, 0, 0, FALSE, 0, k) : k \in { 100, StartCoreSize, StartCoreSize + 10 } }
    \cup { Ev(FRAME_PRE, FIRST_FRAME_INDEX, 0, FALSE, 0, k) : k \in { 3, PortIdSize } }
    \cup { Ev(GAME_END, 0, 0, FALSE, 2, 1), Ev(255, 0, 0, FALSE, 0, 1),
           Ev(ITEM, FIRST_FRAME_INDEX, 0, FALSE, 0, 10),
           Ev(FRAME_START, FIRST_FRAME_INDEX, 0, FALSE, 0, 0) }

EventInputs == FrameEvents(FrameIndices) \cup GameEvents \cup CutEvents

\* the metadata element and the closing byte of the container
MetaInputs ==
    { [prefix |-> TRUE, json |-> TRUE, meta |-> TRUE, close |-> TRUE],
      [prefix |-> FALSE, json |-> TRUE, meta |-> TRUE, close |-> TRUE],
      [prefix |-> TRUE, json |-> FALSE, meta |-> TRUE, close |-> TRUE],
      [prefix |-> TRUE, json |-> TRUE, meta |-> FALSE, close |-> TRUE],
      [prefix |-> TRUE, json |-> TRUE, meta |-> TRUE, close |-> FALSE] }

HandlerSets == { ParseEvent, { FRAME }, { START, END, METADATA } }

(***************************************************************************)
(* Init: parse(input, handlers) has been called and nothing is read yet.   *)
(***************************************************************************)
NoSizes == [c \in {} |-> 0]
NoPos == -1
NoStream ==
    [n |-> 0, tell |-> 0,
     raw |-> [type |-> 0, e |-> 0, v |-> 0, taglen |-> 0, flags |-> 0, ground |-> 0],
     reads |-> 0]
NoResult == [fn |-> "none", exc |-> "none"]
NoTable == [code |-> 0, this_size |-> 0, pairs |-> << >>, cut |-> NoCut, returned |-> FALSE]

\* Game.__init__, lines 19-32, before _parse_file is called
NoGame ==
    [pc |-> "none", err |-> "none", source |-> << >>, read |-> 0,
     json |-> [has_last |-> FALSE, lastFrame |-> 0],
     metadata |-> [present |-> FALSE, duration |-> [type |-> "None", val |-> 0]],
     start |-> 0, end |-> 0, frames |-> << >>, out_of_order |-> FALSE, warnings |-> {}]

\* the file object _parse_open gives to _parse_try: it has a name and is seekable
File == [named |-> TRUE, seekable |-> TRUE]
NoName == "None"

Init ==
    /\ pc = "start"
    /\ handlers \in HandlerSets
    /\ pos = 0
    /\ src_eof = FALSE
    /\ length = 0
    /\ payload_sizes = NoSizes
    /\ total_size = 0
    /\ bytes_read = 0
    /\ event = "None"
    /\ current_frame = NoFrame
    /\ calls = << >>
    /\ log = << >>
    /\ err = "none"
    /\ table = NoTable
    /\ consumed = << >>
    /\ created = 0
    /\ finalized = << >>
    /\ err_pos = NoPos
    /\ stream = NoStream
    /\ result = NoResult
    /\ input = File
    /\ filename = NoName
    /\ game = NoGame

\* an exception leaves _parse and _parse_try re-raises it as a ParseError
Raise(exc) ==
    /\ pc' = "error"
    /\ err' = exc

\* _parse_try leaves the position as the exception brought it
TryPosKept == err_pos

\* _parse_try, lines 224-227: an exception without a position takes input.tell()
TryPos == IF pc' = "error" /\ input.seekable THEN pos' ELSE err_pos

\* _parse_try, lines 221-222: e.filename = input.name, when the input has one
TryName == IF pc' = "error" /\ input.named THEN "name" ELSE filename

\* the position is the outer offset after the code byte, whatever the sub-stream read
EventErrorPosBase(base_pos, tell) == base_pos

\* line 120: the position _parse_event gives to the ParseError it raises
EventErrorPos(base_pos, tell) == base_pos + tell

\* a handler is invoked for the first event of its kind only
InvokedOnce(kind, arg) ==
    IF kind \in handlers /\ \A k \in 1 .. Len(calls) : calls[k].kind # kind
    THEN Append(calls, [kind |-> kind, arg |-> arg])
    ELSE calls

\* handler = handlers.get(kind); if handler: handler(arg)
Invoked(kind, arg) ==
    IF kind \in handlers THEN Append(calls, [kind |-> kind, arg |-> arg]) ELSE calls

\* the bytes read are compared without regard to how many were read
expect_bytesPrefix(match, eof) == match

\* util.expect_bytes: the bytes read are the expected ones
expect_bytes(match, eof) == match /\ ~eof

(***************************************************************************)
(* _parse, lines 192-193: the container prefix and the length of `raw`.    *)
(***************************************************************************)
ParseHeader(h) ==
    /\ pc = "start"
    /\ pos' = pos + Got(HeaderSize, h.cut)
    /\ src_eof' = Short(HeaderSize, h.cut)
    /\ IF ~expect_bytes(h.match, Got(HeaderSize, h.cut) < 11)
       THEN Raise("Exception") /\ UNCHANGED length
       ELSE IF unpack(4, Got(HeaderSize, h.cut) - 11) # "none"
       THEN Raise(unpack(4, Got(HeaderSize, h.cut) - 11)) /\ UNCHANGED length
       ELSE /\ pc' = "payloads"
            /\ length' = h.length
            /\ UNCHANGED err
    /\ UNCHANGED << handlers, payload_sizes, total_size, bytes_read, event,
                    current_frame, calls, log, table, consumed, created, finalized >>
    /\ err_pos' = TryPos
    /\ UNCHANGED dvars
    /\ filename' = TryName
    /\ UNCHANGED << input, game >>

(***************************************************************************)
(* _parse_event_payloads, and the call of _parse_events that takes its     *)
(* result (line 196).                                                      *)
(***************************************************************************)
\* the code of the leading event is not compared with the sentinel
TableHeaderAnyCode(code, this_size) ==
    IF code \notin EventType THEN "ValueError"
    ELSE IF ((this_size - 1) \div 3) * 3 # this_size - 1 THEN "Exception"
    ELSE "none"

\* lines 44-51: the sentinel code and the size of the table
TableHeaderExc(code, this_size) ==
    IF code \notin EventType THEN "ValueError"
    ELSE IF code # EVENT_PAYLOADS THEN "Exception"
    ELSE IF ((this_size - 1) \div 3) * 3 # this_size - 1 THEN "Exception"
    ELSE "none"

\* the pairs read before the source ends
PairsRead(count, avail) ==
    IF avail - 2 >= 3 * count THEN count
    ELSE IF avail <= 2 THEN 0
    ELSE (avail - 2) \div 3

\* only the sizes of the known event types are kept
SizesKnown(pairs, m) ==
    [c \in { pairs[i][1] : i \in 1 .. m } \cap EventType |->
        LET last == CHOOSE i \in 1 .. m :
                        /\ pairs[i][1] = c
                        /\ \A j \in 1 .. m : pairs[j][1] = c => j <= i
        IN  pairs[last][2]]

\* sizes[code] = size, pair after pair
Sizes(pairs, m) ==
    [c \in { pairs[i][1] : i \in 1 .. m } |->
        LET last == CHOOSE i \in 1 .. m :
                        /\ pairs[i][1] = c
                        /\ \A j \in 1 .. m : pairs[j][1] = c => j <= i
        IN  pairs[last][2]]

\* log.info('ignoring unknown event type: 0x%02x' % code), pair after pair
RECURSIVE UnknownLog(_, _)
UnknownLog(pairs, m) ==
    IF m = 0 THEN << >>
    ELSE UnknownLog(pairs, m - 1)
         \o (IF pairs[m][1] \in EventType THEN << >>
             ELSE << [msg |-> "ignoring unknown event type", code |-> pairs[m][1]] >>)

ParseEventPayloads(t) ==
    LET this_size == t.this_size - 1
        command_count == this_size \div 3
        whole == 2 + 3 * (IF command_count > 0 THEN command_count ELSE 0)
        avail == Got(whole, t.cut)
        m == PairsRead(command_count, avail)
        returns == /\ unpack(2, avail) = "none"
                   /\ TableHeaderExc(t.code, t.this_size) = "none"
                   /\ m = command_count
    IN  /\ pc = "payloads"
        /\ table' = [code |-> t.code, this_size |-> t.this_size, pairs |-> t.pairs,
                     cut |-> t.cut, returned |-> returns]
        /\ IF unpack(2, avail) # "none"
           THEN /\ Raise(unpack(2, avail))
                /\ pos' = pos + avail
                /\ src_eof' = TRUE
                /\ UNCHANGED << payload_sizes, total_size, log >>
           ELSE IF TableHeaderExc(t.code, t.this_size) # "none"
           THEN /\ Raise(TableHeaderExc(t.code, t.this_size))
                /\ pos' = pos + 2
                /\ UNCHANGED << src_eof, payload_sizes, total_size, log >>
           ELSE /\ Len(t.pairs) = command_count
                /\ pos' = pos + avail
                /\ src_eof' = Short(whole, t.cut)
                /\ log' = log \o UnknownLog(t.pairs, m)
                /\ IF m < command_count
                   THEN /\ Raise(unpack(3, avail - 2 - 3 * m))
                        /\ UNCHANGED << payload_sizes, total_size >>
                   ELSE /\ payload_sizes' = Sizes(t.pairs, m)
                        /\ total_size' = length - (2 + this_size)
                        /\ pc' = "events"
                        /\ UNCHANGED err
        /\ UNCHANGED << handlers, length, bytes_read, event, current_frame,
                        calls, consumed, created, finalized >>
        /\ err_pos' = TryPos
        /\ UNCHANGED dvars
        /\ filename' = TryName
        /\ UNCHANGED << input, game >>

\* an event type without a decoder is an error
DecodeStrict(e, got) ==
    IF e.code = GAME_START THEN [exc |-> StartParse(got).exc, class |-> "Start"]
    ELSE IF e.code \in { FRAME_PRE, FRAME_POST, FRAME_START, ITEM, FRAME_END }
    THEN [exc |-> IdParse(e.code, got).exc, class |-> "Frame.Event"]
    ELSE IF e.code = GAME_END THEN [exc |-> EndParse(got, e.raw).exc, class |-> "End"]
    ELSE [exc |-> "ValueError", class |-> "None"]

(***************************************************************************)
(* _parse_event: the code byte, the size lookup, the bounded sub-stream    *)
(* and the dispatch on the event type.                                     *)
(***************************************************************************)
Decode(e, got) ==
    IF e.code = GAME_START THEN [exc |-> StartParse(got).exc, class |-> "Start"]
    ELSE IF e.code \in { FRAME_PRE, FRAME_POST, FRAME_START, ITEM, FRAME_END }
    THEN [exc |-> IdParse(e.code, got).exc, class |-> "Frame.Event"]
    ELSE IF e.code = GAME_END THEN [exc |-> EndParse(got, e.raw).exc, class |-> "End"]
    ELSE [exc |-> "none", class |-> "None"]

\* stream.tell() of the sub-stream when the decoder returned or raised
DecodeTell(e, got) ==
    IF e.code = GAME_START THEN StartParse(got).tell
    ELSE IF e.code \in { FRAME_PRE, FRAME_POST, FRAME_START, ITEM, FRAME_END }
    THEN IdParse(e.code, got).tell
    ELSE IF e.code = GAME_END THEN EndParse(got, e.raw).tell
    ELSE 0

\* the objects handed to the START and END handlers
StartObject(tag, got) == [class |-> "Start", tag |-> tag, n |-> got]
EndObject(tag, got, method) == [class |-> "End", tag |-> tag, n |-> got, method |-> method]

\* the condition of the while loop of _parse_events (line 129)
LoopCond == (total_size = 0 \/ bytes_read < total_size) /\ event # END

\* an entry of the history of events: the event read and what became of it
Read(e, class) ==
    [code |-> e.code, frame |-> e.frame, port |-> e.port, follower |-> e.follower,
     raw |-> e.raw, cut |-> e.cut, class |-> class]

\* one more event is read from the source: its code byte and its payload
ReadsEvent(e, class) ==
    /\ pc = "events"
    /\ LoopCond
    /\ ~src_eof
    /\ consumed' = Append(consumed, Read(e, class))

\* _parse_event returned (1 + size, event): lines 130-131
Charged(e, class) ==
    /\ e.code \in DOMAIN payload_sizes
    /\ Decode(e, Got(payload_sizes[e.code], e.cut)).exc = "none"
    /\ Decode(e, Got(payload_sizes[e.code], e.cut)).class = class
    /\ pos' = pos + 1 + Got(payload_sizes[e.code], e.cut)
    /\ src_eof' = Short(payload_sizes[e.code], e.cut)
    /\ bytes_read' = bytes_read + 1 + payload_sizes[e.code]
    /\ event' = class

\* the end of the source hands the Frame being accumulated to the FRAME handler
EventEOFHandsFrame ==
    /\ pc = "events"
    /\ LoopCond
    /\ Raise(unpack(1, 0))
    /\ src_eof' = TRUE
    /\ calls' = IF current_frame.open THEN Invoked(FRAME, Finalize(current_frame)) ELSE calls
    /\ finalized' = IF current_frame.open THEN Append(finalized, Finalize(current_frame))
                    ELSE finalized
    /\ current_frame' = IF current_frame.open THEN Finalize(current_frame) ELSE current_frame
    /\ UNCHANGED << handlers, pos, length, payload_sizes, total_size, bytes_read, event,
                    log, table, consumed, created >>
    /\ err_pos' = TryPos
    /\ UNCHANGED dvars
    /\ filename' = TryName
    /\ UNCHANGED << input, game >>

\* unpack('B', event_stream) finds the source at its end
EventEOF ==
    /\ pc = "events"
    /\ LoopCond
    /\ Raise(unpack(1, 0))
    /\ src_eof' = TRUE
    /\ UNCHANGED << handlers, pos, length, payload_sizes, total_size, bytes_read, event,
                    current_frame, calls, log, table, consumed, created, finalized >>
    /\ err_pos' = TryPos
    /\ UNCHANGED dvars
    /\ filename' = TryName
    /\ UNCHANGED << input, game >>

\* payload_sizes[code] raises KeyError (lines 72-73)
UnexpectedEvent(e) ==
    /\ ReadsEvent(e, "error")
    /\ e.code \notin DOMAIN payload_sizes
    /\ Raise("ValueError")
    /\ pos' = pos + 1
    /\ UNCHANGED << handlers, src_eof, length, payload_sizes, total_size, bytes_read,
                    event, current_frame, calls, log, table, created, finalized >>
    /\ err_pos' = TryPos
    /\ UNCHANGED dvars
    /\ filename' = TryName
    /\ UNCHANGED << input, game >>

\* the decoder of the event raises inside the try block (lines 77-120)
DecodeFails(e) ==
    /\ ReadsEvent(e, "error")
    /\ e.code \in DOMAIN payload_sizes
    /\ Decode(e, Got(payload_sizes[e.code], e.cut)).exc # "none"
    /\ Raise(Decode(e, Got(payload_sizes[e.code], e.cut)).exc)
    /\ pos' = pos + 1 + Got(payload_sizes[e.code], e.cut)
    /\ src_eof' = Short(payload_sizes[e.code], e.cut)
    /\ UNCHANGED << handlers, length, payload_sizes, total_size, bytes_read,
                    event, current_frame, calls, log, table, created, finalized >>
    /\ err_pos' = IF input.seekable
                  THEN EventErrorPos(pos + 1, DecodeTell(e, Got(payload_sizes[e.code], e.cut)))
                  ELSE NoPos
    /\ UNCHANGED dvars
    /\ filename' = TryName
    /\ UNCHANGED << input, game >>

(***************************************************************************)
(* _parse_events: one iteration of the loop for each class of event.       *)
(***************************************************************************)
\* the exception of the START handler is noted and the loop goes on
HandleStartContinues(e, hraise) ==
    /\ ReadsEvent(e, "Start")
    /\ Charged(e, "Start")
    /\ calls' = Invoked(START, StartObject(Len(consumed) + 1, Got(payload_sizes[e.code], e.cut)))
    /\ IF START \in handlers /\ hraise
       THEN err' = "HandlerError" /\ UNCHANGED pc
       ELSE UNCHANGED << pc, err >>
    /\ UNCHANGED << handlers, length, payload_sizes, total_size, current_frame, log,
                    table, created, finalized >>
    /\ err_pos' = TryPos
    /\ UNCHANGED dvars
    /\ filename' = TryName
    /\ UNCHANGED << input, game >>

HandleStart(e, hraise) ==
    /\ ReadsEvent(e, "Start")
    /\ Charged(e, "Start")
    /\ calls' = Invoked(START, StartObject(Len(consumed) + 1, Got(payload_sizes[e.code], e.cut)))
    /\ IF START \in handlers /\ hraise THEN Raise("HandlerError") ELSE UNCHANGED << pc, err >>
    /\ UNCHANGED << handlers, length, payload_sizes, total_size, current_frame, log,
                    table, created, finalized >>
    /\ err_pos' = TryPos
    /\ UNCHANGED dvars
    /\ filename' = TryName
    /\ UNCHANGED << input, game >>

\* the End event closes the Frame being accumulated
HandleEndClosesFrame(e, hraise) ==
    /\ ReadsEvent(e, "End")
    /\ Charged(e, "End")
    /\ calls' = IF current_frame.open /\ FRAME \in handlers
                THEN Append(Invoked(END, EndObject(Len(consumed) + 1, Got(payload_sizes[e.code], e.cut), e.raw)),
                            [kind |-> FRAME, arg |-> Finalize(current_frame)])
                ELSE Invoked(END, EndObject(Len(consumed) + 1, Got(payload_sizes[e.code], e.cut), e.raw))
    /\ finalized' = IF current_frame.open THEN Append(finalized, Finalize(current_frame)) ELSE finalized
    /\ current_frame' = NoFrame
    /\ IF END \in handlers /\ hraise THEN Raise("HandlerError") ELSE UNCHANGED << pc, err >>
    /\ UNCHANGED << handlers, length, payload_sizes, total_size, log, table, created >>
    /\ err_pos' = TryPos
    /\ UNCHANGED dvars
    /\ filename' = TryName
    /\ UNCHANGED << input, game >>

HandleEnd(e, hraise) ==
    /\ ReadsEvent(e, "End")
    /\ Charged(e, "End")
    /\ calls' = Invoked(END, EndObject(Len(consumed) + 1, Got(payload_sizes[e.code], e.cut), e.raw))
    /\ IF END \in handlers /\ hraise THEN Raise("HandlerError") ELSE UNCHANGED << pc, err >>
    /\ UNCHANGED << handlers, length, payload_sizes, total_size, current_frame, log,
                    table, created, finalized >>
    /\ err_pos' = TryPos
    /\ UNCHANGED dvars
    /\ filename' = TryName
    /\ UNCHANGED << input, game >>

\* event is None: an event type without a decoder
HandleSkip(e) ==
    /\ ReadsEvent(e, "None")
    /\ Charged(e, "None")
    /\ UNCHANGED << pc, err, handlers, length, payload_sizes, total_size, current_frame,
                    calls, log, table, created, finalized >>
    /\ err_pos' = TryPos
    /\ UNCHANGED dvars
    /\ filename' = TryName
    /\ UNCHANGED << input, game >>

\* a change of Frame is seen only when the index grows
IndexDiffersForward(f, index) == f.open /\ f.index < index

\* every frame-scoped event closes the open Frame
IndexDiffersAlways(f, index) == f.open

\* line 145: a Frame is open and the event belongs to another one
IndexDiffers(f, index) == f.open /\ f.index # index

HandleFrame(e, hraise) ==
    LET differs == IndexDiffers(current_frame, e.frame)
        fresh   == differs \/ ~current_frame.open
        base    == IF fresh THEN Frame(created + 1, e.frame) ELSE current_frame
        rest    == Got(payload_sizes[e.code], e.cut) - IdParse(e.code, Got(payload_sizes[e.code], e.cut)).tell
        exc     == MergeExc(e.code, e.port, rest)
    IN  /\ ReadsEvent(e, "Frame.Event")
        /\ Charged(e, "Frame.Event")
        /\ calls' = IF differs THEN Invoked(FRAME, Finalize(current_frame)) ELSE calls
        /\ finalized' = IF differs THEN Append(finalized, Finalize(current_frame)) ELSE finalized
        /\ IF differs /\ FRAME \in handlers /\ hraise
           THEN /\ Raise("HandlerError")
                /\ current_frame' = Finalize(current_frame)
                /\ UNCHANGED created
           ELSE /\ created' = IF fresh THEN created + 1 ELSE created
                /\ IF exc # "none"
                   THEN /\ Raise(exc)
                        /\ current_frame' = base
                   ELSE /\ current_frame' = Merge(base, e.code, e.port, e.follower, Len(consumed) + 1)
                        /\ UNCHANGED << pc, err >>
        /\ UNCHANGED << handlers, length, payload_sizes, total_size, log, table >>
        /\ err_pos' = TryPos
        /\ UNCHANGED dvars
        /\ filename' = TryName
        /\ UNCHANGED << input, game >>

\* the Frame open at the end of the loop is dropped
OpenAtEndNever(f) == FALSE

\* line 181: a Frame is open when the loop ends
OpenAtEnd(f) == f.open

\* the loop has ended: the open Frame is finalized and handed over (lines 181-185)
FinishEvents(hraise) ==
    /\ pc = "events"
    /\ ~LoopCond
    /\ IF OpenAtEnd(current_frame)
       THEN /\ current_frame' = Finalize(current_frame)
            /\ finalized' = Append(finalized, Finalize(current_frame))
            /\ calls' = Invoked(FRAME, Finalize(current_frame))
            /\ IF FRAME \in handlers /\ hraise
               THEN Raise("HandlerError")
               ELSE pc' = "metadata" /\ UNCHANGED err
       ELSE /\ pc' = "metadata"
            /\ UNCHANGED << err, current_frame, finalized, calls >>
    /\ UNCHANGED << handlers, pos, src_eof, length, payload_sizes, total_size,
                    bytes_read, event, log, table, consumed, created >>
    /\ err_pos' = TryPos
    /\ UNCHANGED dvars
    /\ filename' = TryName
    /\ UNCHANGED << input, game >>

(***************************************************************************)
(* _parse, lines 198-210: the metadata element and the end of the          *)
(* container.  hraise tells which of the two handlers raises, if any.      *)
(***************************************************************************)
ParseMetadata(m, hraise) ==
    LET raw_raises  == METADATA_RAW \in handlers /\ hraise = 1
        meta_raises == METADATA \in handlers /\ hraise = 2
        loaded      == expect_bytes(m.prefix, src_eof) /\ m.json
        parsed      == loaded /\ ~raw_raises /\ m.meta
    IN  /\ pc = "metadata"
        /\ calls' = (IF loaded /\ METADATA_RAW \in handlers
                     THEN Append(calls, [kind |-> METADATA_RAW, arg |-> [class |-> "dict"]])
                     ELSE calls)
                    \o (IF parsed /\ METADATA \in handlers
                        THEN << [kind |-> METADATA, arg |-> [class |-> "Metadata"]] >>
                        ELSE << >>)
        /\ IF ~loaded THEN Raise("Exception")
           ELSE IF raw_raises THEN Raise("HandlerError")
           ELSE IF ~m.meta THEN Raise("Exception")
           ELSE IF meta_raises THEN Raise("HandlerError")
           ELSE IF ~expect_bytes(m.close, src_eof) THEN Raise("Exception")
           ELSE pc' = "done" /\ UNCHANGED err
        /\ UNCHANGED << handlers, pos, src_eof, length, payload_sizes, total_size, bytes_read,
                        event, current_frame, log, table, consumed, created, finalized >>
        /\ err_pos' = TryPos
        /\ UNCHANGED dvars
        /\ filename' = TryName
        /\ UNCHANGED << input, game >>

(***************************************************************************)
(* The parse of a source that holds at most MaxEvents events.              *)
(***************************************************************************)
SourceEvents == IF Len(consumed) < MaxEvents THEN EventInputs ELSE {}

Next ==
    \/ \E h \in HeaderInputs : ParseHeader(h)
    \/ \E t \in TableInputs : ParseEventPayloads(t)
    \/ EventEOF
    \/ \E e \in SourceEvents : UnexpectedEvent(e)
    \/ \E e \in SourceEvents : DecodeFails(e)
    \/ \E e \in SourceEvents, hraise \in BOOLEAN : HandleStart(e, hraise)
    \/ \E e \in SourceEvents, hraise \in BOOLEAN : HandleEnd(e, hraise)
    \/ \E e \in SourceEvents : HandleSkip(e)
    \/ \E e \in SourceEvents, hraise \in BOOLEAN : HandleFrame(e, hraise)
    \/ \E hraise \in BOOLEAN : FinishEvents(hraise)
    \/ \E m \in MetaInputs, hraise \in 0 .. 2 : ParseMetadata(m, hraise)

Spec == Init /\ [][Next]_vars

(***************************************************************************)
(* The parse of a source whose event block holds four Pre/Post events with *)
(* the frame indices -123, -122, -121, -121, the declared length ending    *)
(* the block after the fourth of them.                                     *)
(***************************************************************************)
RollbackScript ==
    << FIRST_FRAME_INDEX, FIRST_FRAME_INDEX + 1, FIRST_FRAME_INDEX + 2, FIRST_FRAME_INDEX + 2 >>

RollbackHeaders == { [match |-> TRUE, cut |-> NoCut, length |-> StdTableBytes + 200] }

RollbackTables ==
    { [code |-> EVENT_PAYLOADS, this_size |-> 3 * Len(StdPairs) + 1, pairs |-> StdPairs,
       cut |-> NoCut] }

RollbackEvents ==
    IF Len(consumed) < Len(RollbackScript)
    THEN { e \in PortEvents({ RollbackScript[Len(consumed) + 1] }) : e.port \in PORTS }
    ELSE {}

NextRollback ==
    \/ \E h \in RollbackHeaders : ParseHeader(h)
    \/ \E t \in RollbackTables : ParseEventPayloads(t)
    \/ \E e \in RollbackEvents, hraise \in BOOLEAN : HandleFrame(e, hraise)
    \/ \E hraise \in BOOLEAN : FinishEvents(hraise)
    \/ \E m \in MetaInputs, hraise \in 0 .. 2 : ParseMetadata(m, hraise)

SpecRollback == Init /\ [][NextRollback]_vars

(***************************************************************************)
(* The parse of a source whose payload table declares the game-start event *)
(* only, and whose event block holds game-start events of the declared     *)
(* size: 100 bytes (the fields before the players), the fixed fields, or   *)
(* the full payload.                                                       *)
(***************************************************************************)
StartOnlySizes == { StartPlayersOffset, StartCoreSize, StartCoreSize + 32 + 64 + 2 }
StartOnlyPairs(size) == << <<GAME_START, size>> >>
StartOnlyTableBytes == 2 + 3

StartOnlyHeaders ==
    { [match |-> TRUE, cut |-> NoCut, length |-> StartOnlyTableBytes + 1 + size] :
        size \in StartOnlySizes }

StartOnlyTables ==
    { [code |-> EVENT_PAYLOADS, this_size |-> 3 + 1, pairs |-> StartOnlyPairs(size),
       cut |-> NoCut] : size \in StartOnlySizes }

StartOnlyEvents ==
    IF Len(consumed) < MaxEvents THEN { Ev(GAME_START, 0, 0, FALSE, 0, NoCut) } ELSE {}

NextStartOnly ==
    \/ \E h \in StartOnlyHeaders : ParseHeader(h)
    \/ \E t \in StartOnlyTables : ParseEventPayloads(t)
    \/ EventEOF
    \/ \E e \in StartOnlyEvents : DecodeFails(e)
    \/ \E e \in StartOnlyEvents, hraise \in BOOLEAN : HandleStart(e, hraise)
    \/ \E hraise \in BOOLEAN : FinishEvents(hraise)
    \/ \E m \in MetaInputs, hraise \in 0 .. 2 : ParseMetadata(m, hraise)

SpecStartOnly == Init /\ [][NextStartOnly]_vars

(***************************************************************************)
(* The parse of a source whose event block holds three Pre/Post events of  *)
(* one frame index, in any order of ports, of leader and follower, of Pre  *)
(* and Post; the declared length ends the block after the third.           *)
(***************************************************************************)
SameFrameScript == << FIRST_FRAME_INDEX, FIRST_FRAME_INDEX, FIRST_FRAME_INDEX >>

SameFrameHeaders ==
    { [match |-> TRUE, cut |-> NoCut,
       length |-> StdTableBytes + Len(SameFrameScript) * (1 + PortIdSize + 45)] }

SameFrameEvents ==
    IF Len(consumed) < Len(SameFrameScript)
    THEN { e \in PortEvents({ SameFrameScript[Len(consumed) + 1] }) : e.port \in PORTS }
    ELSE {}

NextSameFrame ==
    \/ \E h \in SameFrameHeaders : ParseHeader(h)
    \/ \E t \in RollbackTables : ParseEventPayloads(t)
    \/ \E e \in SameFrameEvents, hraise \in BOOLEAN : HandleFrame(e, hraise)
    \/ \E hraise \in BOOLEAN : FinishEvents(hraise)
    \/ \E m \in MetaInputs, hraise \in 0 .. 2 : ParseMetadata(m, hraise)

SpecSameFrame == Init /\ [][NextSameFrame]_vars

(***************************************************************************)
(* The parse of a source whose event block holds up to MaxTimeline events  *)
(* delivered in full: Pre, Post and item events of two frame indices in    *)
(* any order (so that an index may come back after another one), game     *)
(* start and game-end events and events of the unknown code 0xff.          *)
(***************************************************************************)
MaxTimeline == 3

TimelineHeaders ==
    { [match |-> TRUE, cut |-> NoCut, length |-> StdTableBytes + n] :
        n \in { 1, 1 + PortIdSize + 57 + 1, 3 * (1 + PortIdSize + 57),
                2 * (1 + PortIdSize + 57) + 1 + StartCoreSize + 32 + 64 + 2 } }

TimelineEvents ==
    IF Len(consumed) < MaxTimeline
    THEN { Ev(FRAME_PRE, i, 0, FALSE, 0, NoCut) : i \in FrameIndices }
         \cup { Ev(FRAME_POST, i, 3, TRUE, 0, NoCut) : i \in FrameIndices }
         \cup { Ev(ITEM, i, 0, FALSE, 0, NoCut) : i \in FrameIndices }
         \cup { Ev(GAME_START, 0, 0, FALSE, 0, NoCut),
                Ev(GAME_END, 0, 0, FALSE, 2, NoCut), Ev(255, 0, 0, FALSE, 0, NoCut) }
    ELSE {}

NextTimeline ==
    \/ \E h \in TimelineHeaders : ParseHeader(h)
    \/ \E t \in RollbackTables : ParseEventPayloads(t)
    \/ EventEOF
    \/ \E e \in TimelineEvents, hraise \in BOOLEAN : HandleStart(e, hraise)
    \/ \E e \in TimelineEvents, hraise \in BOOLEAN : HandleEnd(e, hraise)
    \/ \E e \in TimelineEvents : HandleSkip(e)
    \/ \E e \in TimelineEvents, hraise \in BOOLEAN : HandleFrame(e, hraise)
    \/ \E hraise \in BOOLEAN : FinishEvents(hraise)
    \/ \E m \in MetaInputs, hraise \in 0 .. 2 : ParseMetadata(m, hraise)

SpecTimeline == Init /\ [][NextTimeline]_vars

(***************************************************************************)
(* The parse of an input object of any kind: a file (named, seekable), a   *)
(* BytesIO (seekable, no name), a pipe (named, not seekable), a response   *)
(* body (neither).  An input without a seekable method behaves as one that *)
(* is not seekable (lines 69-70 and 228-229).  The event block holds       *)
(* events that decode and events that fail in each of the ways of          *)
(* _parse_event.                                                           *)
(***************************************************************************)
Inputs == [named : BOOLEAN, seekable : BOOLEAN]

InitInput ==
    /\ pc = "start"
    /\ handlers \in HandlerSets
    /\ pos = 0
    /\ src_eof = FALSE
    /\ length = 0
    /\ payload_sizes = NoSizes
    /\ total_size = 0
    /\ bytes_read = 0
    /\ event = "None"
    /\ current_frame = NoFrame
    /\ calls = << >>
    /\ log = << >>
    /\ err = "none"
    /\ table = NoTable
    /\ consumed = << >>
    /\ created = 0
    /\ finalized = << >>
    /\ err_pos = NoPos
    /\ stream = NoStream
    /\ result = NoResult
    /\ input \in Inputs
    /\ filename = NoName
    /\ game = NoGame

\* a payload table that declares two bytes more than End._parse reads
LongEndPairs ==
    << <<GAME_START, StartCoreSize + 32 + 64 + 2>>, <<FRAME_PRE, PortIdSize + 57>>,
       <<GAME_END, 2 + 2>> >>

InputTables ==
    TableInputs
    \cup { [code |-> EVENT_PAYLOADS, this_size |-> 3 * Len(LongEndPairs) + 1,
            pairs |-> LongEndPairs, cut |-> NoCut] }

InputEvents ==
    IF Len(consumed) < MaxEvents
    THEN { Ev(GAME_START, 0, 0, FALSE, 0, NoCut), Ev(GAME_START, 0, 0, FALSE, 0, 100),
           Ev(GAME_END, 0, 0, FALSE, 2, NoCut), Ev(GAME_END, 0, 0, FALSE, 4, NoCut),
           Ev(254, 0, 0, FALSE, 0, NoCut),
           Ev(FRAME_PRE, FIRST_FRAME_INDEX, 0, FALSE, 0, NoCut),
           Ev(FRAME_PRE, FIRST_FRAME_INDEX, 4, FALSE, 0, NoCut),
           Ev(FRAME_PRE, FIRST_FRAME_INDEX, 0, FALSE, 0, 3) }
    ELSE {}

NextInput ==
    \/ \E h \in HeaderInputs : ParseHeader(h)
    \/ \E t \in InputTables : ParseEventPayloads(t)
    \/ EventEOF
    \/ \E e \in InputEvents : UnexpectedEvent(e)
    \/ \E e \in InputEvents : DecodeFails(e)
    \/ \E e \in InputEvents, hraise \in BOOLEAN : HandleStart(e, hraise)
    \/ \E e \in InputEvents, hraise \in BOOLEAN : HandleEnd(e, hraise)
    \/ \E e \in InputEvents, hraise \in BOOLEAN : HandleFrame(e, hraise)
    \/ \E hraise \in BOOLEAN : FinishEvents(hraise)
    \/ \E m \in MetaInputs, hraise \in 0 .. 2 : ParseMetadata(m, hraise)

SpecInput == InitInput /\ [][NextInput]_vars

(***************************************************************************)
(* The decoders called on their own.  A Python value is a record of its    *)
(* type and its content; None is a value of its own type.  The payload is  *)
(* a stream of n bytes whose cursor stands at tell; raw gives the values   *)
(* its fields hold: type in the type byte of every port, e in the fields   *)
(* decoded by an enumeration, v in the numeric fields, and a name tag of   *)
(* taglen characters followed by a null byte.  The fields this model does  *)
(* not follow (stage, character, direction, action state) hold members of  *)
(* their enumerations.  flags is the integer of the five flag bytes of a    *)
(* Post payload and ground its ground id.                                   *)
(***************************************************************************)
Py(type, val) == [type |-> type, val |-> val]
None == Py("None", 0)

PlayerType == { 0, 1 }
DashBack == { 0, 1, 2 }
LCancel == { 1, 2 }
Attack == (1 .. 46) \cup (50 .. 93)

\* util.try_enum: the member, or the raw value with a message in the log
try_enum(members, val) == IF val \in members THEN Py("enum", val) ELSE Py("int", val)
try_enum_log(members, val) ==
    IF val \in members THEN << >> ELSE << [msg |-> "unknown Attack", code |-> val] >>

\* Start._parse, lines 78-104: the blocks after the fixed fields
StartUcfSize == 4 + 4
StartTagSize == 16
StartTagsOffset == StartCoreSize + 4 * StartUcfSize
StartPalOffset == StartTagsOffset + 4 * StartTagSize

\* the bytes stream.read(16) returns for the tag of port i
StartTagBytes(n, i) ==
    IF n <= StartTagsOffset + StartTagSize * i THEN 0
    ELSE IF n >= StartTagsOffset + StartTagSize * (i + 1) THEN StartTagSize
    ELSE n - (StartTagsOffset + StartTagSize * i)

\* Player.__init__ (ucf or self.UCF()) and UCF.__init__ (dash_back or OFF)
UCF(dash_back, shield_drop) ==
    [type |-> "UCF", dash_back |-> dash_back, shield_drop |-> shield_drop]

StartPlayer(n, raw, i) ==
    IF raw.type \notin PlayerType
    THEN [present |-> FALSE, ucf |-> UCF(0, 0), tag |-> None]
    ELSE [present |-> TRUE,
          ucf |-> IF i < StartUcfRead(n) THEN UCF(raw.e, raw.e) ELSE UCF(0, 0),
          tag |-> Py("str", IF StartTagBytes(n, i) < raw.taglen
                            THEN StartTagBytes(n, i) ELSE raw.taglen)]

StartFields(n, raw) ==
    [fn |-> "Start",
     exc |-> IF n < StartCoreSize THEN StartParse(n).exc
             ELSE IF StartUcfRead(n) > 0 /\ raw.e \notin DashBack THEN "ValueError"
             ELSE StartParse(n).exc,
     players |-> [i \in PORTS |-> StartPlayer(n, raw, i)],
     is_pal |-> IF n > StartPalOffset THEN Py("bool", raw.v) ELSE None,
     is_frozen_ps |-> IF n > StartPalOffset + 1 THEN Py("bool", raw.v) ELSE None]

\* Pre._parse: the fixed fields, then raw_analog_x and damage
PreCoreSize == 4 + 2 + 8 * 4 + 4 + 2 + 4 + 4

PreParse(n, raw) ==
    [fn |-> "Pre",
     exc |-> FirstExc(<< unpack(PreCoreSize, n),
                         IF unpack(4, n - PreCoreSize - 1) = "struct.error"
                         THEN "struct.error" ELSE "none" >>),
     raw_analog_x |-> IF unpack(1, n - PreCoreSize) = "none"
                      THEN Py("tuple", raw.v) ELSE None,
     damage |-> IF unpack(4, n - PreCoreSize - 1) = "none"
                THEN Py("tuple", raw.v) ELSE None]

\* members of StateFlags
REFLECT == 2 ^ 4
HIT_STUN == 2 ^ 25

\* line 429, flags.HIT_STUN: the attribute of an instance of the enumeration is
\* the member of the class, whatever the value of the instance
FlagsAttr(flags, member) == member

\* Post._parse: the fixed fields, state_age, then the block read in one try
PostCoreSize == 1 + 2 + 5 * 4 + 4
PostFlagsSize == 5
PostTailSize == 4 + 1 + 2 + 1 + 1

PostParse(n, raw) ==
    LET age   == unpack(4, n - PostCoreSize)
        flags == unpack(PostFlagsSize, n - PostCoreSize - 4)
        tail  == unpack(PostTailSize, n - PostCoreSize - 4 - PostFlagsSize)
        block == flags = "none" /\ tail = "none"
    IN  [fn |-> "Post",
         exc |-> FirstExc(<< unpack(PostCoreSize, n),
                             IF age = "struct.error" THEN age ELSE "none",
                             IF flags = "struct.error" THEN flags ELSE "none",
                             IF flags = "none" /\ tail = "struct.error" THEN tail ELSE "none",
                             IF block /\ raw.e # 0 /\ raw.e \notin LCancel
                             THEN "ValueError" ELSE "none" >>),
         state_age |-> IF age = "none" THEN Py("float", raw.v) ELSE None,
         flags |-> IF block THEN Py("StateFlags", raw.flags) ELSE None,
         hit_stun |-> IF block /\ FlagsAttr(raw.flags, HIT_STUN) # 0
                      THEN Py("float", raw.v) ELSE None,
         airborne |-> IF block THEN Py("bool", raw.v) ELSE None,
         ground |-> IF block /\ raw.v = 0 THEN Py("int", raw.ground) ELSE None,
         jumps |-> IF block THEN Py("int", raw.v) ELSE None,
         l_cancel |-> IF block /\ raw.e \in LCancel THEN Py("enum", raw.e) ELSE None]

\* End._parse: the object it returns
EndFields(n, raw) ==
    [fn |-> "End", exc |-> EndParse(n, raw.e).exc, method |-> Py("enum", raw.e),
     lras_initiator |-> IF n >= 2 /\ raw.v \in PORTS THEN Py("int", raw.v) ELSE None]

(***************************************************************************)
(* The specification of the decoders called on their own: a payload stream *)
(* is drawn, then util.unpack reads from it, or one of the decoders of     *)
(* event.py parses it from its start; util.try_enum is called on raw       *)
(* values of the Attack enumeration.                                       *)
(***************************************************************************)
\* at most this many reads of unpack on one stream, and calls of try_enum
MaxReads == 2
MaxCalls == 2

StreamSizes ==
    { 0, 1, 2, 3, 8, PostCoreSize, PostCoreSize + 4, PostCoreSize + 4 + PostFlagsSize,
      PostCoreSize + 4 + PostFlagsSize + 4, PostCoreSize + 4 + PostFlagsSize + PostTailSize,
      PreCoreSize, PreCoreSize + 1, PreCoreSize + 3, PreCoreSize + 5,
      StartPlayersOffset, StartCoreSize, StartCoreSize + 4, StartCoreSize + 2 * StartUcfSize,
      StartTagsOffset, StartTagsOffset + StartTagSize, StartPalOffset, StartPalOffset + 1,
      StartPalOffset + 2 }

RawInputs ==
    { [type |-> 0, e |-> 0, v |-> 0, taglen |-> 0, flags |-> 0, ground |-> 0],
      [type |-> 0, e |-> 1, v |-> 1, taglen |-> 3, flags |-> HIT_STUN, ground |-> 5],
      [type |-> 1, e |-> 2, v |-> 0, taglen |-> 3, flags |-> REFLECT, ground |-> 5],
      [type |-> 0, e |-> 4, v |-> 1, taglen |-> 0, flags |-> 0, ground |-> 0],
      [type |-> 3, e |-> 1, v |-> 0, taglen |-> 3, flags |-> HIT_STUN + REFLECT, ground |-> 0] }

StreamInputs == [n : StreamSizes, tell : { 0 }, raw : RawInputs, reads : { 0 }]

FmtSizes == { 1, 4, 8 }
EnumInputs == { 1, 47, 200 }

\* the variables of parse(), which the decoders called on their own leave alone
parse_vars == << pc, handlers, pos, src_eof, length, payload_sizes, total_size, bytes_read,
                 event, current_frame, calls, err, table, consumed, created, finalized,
                 err_pos, input, filename >>

InitDecode ==
    /\ pc = "start"
    /\ handlers = {}
    /\ pos = 0
    /\ src_eof = FALSE
    /\ length = 0
    /\ payload_sizes = NoSizes
    /\ total_size = 0
    /\ bytes_read = 0
    /\ event = "None"
    /\ current_frame = NoFrame
    /\ calls = << >>
    /\ log = << >>
    /\ err = "none"
    /\ table = NoTable
    /\ consumed = << >>
    /\ created = 0
    /\ finalized = << >>
    /\ err_pos = NoPos
    /\ stream \in StreamInputs
    /\ result = NoResult
    /\ input = File
    /\ filename = NoName
    /\ game = NoGame

\* util.unpack(fmt, stream): stream.read(size) takes what is left, up to size
Unpack(size) ==
    /\ stream.reads < MaxReads
    /\ result' = [fn |-> "unpack", exc |-> unpack(size, stream.n - stream.tell),
                  size |-> size, from |-> stream.tell]
    /\ stream' = [stream EXCEPT !.reads = @ + 1,
                                !.tell = IF stream.n - @ < size THEN stream.n ELSE @ + size]
    /\ UNCHANGED << parse_vars, log, game >>

\* util.try_enum(Attack, val)
TryEnum(val) ==
    /\ Len(log) < MaxCalls
    /\ result' = [fn |-> "try_enum", exc |-> "none", value |-> try_enum(Attack, val)]
    /\ log' = log \o try_enum_log(Attack, val)
    /\ UNCHANGED << parse_vars, stream, game >>

\* a decoder parses the stream from its start and leaves the cursor where it stopped
Decodes(fields, tell) ==
    /\ stream.tell = 0
    /\ stream.reads = 0
    /\ result.fn \in { "none", "try_enum" }
    /\ result' = fields
    /\ stream' = [stream EXCEPT !.tell = tell]
    /\ UNCHANGED << parse_vars, log, game >>

StartDecode == Decodes(StartFields(stream.n, stream.raw), StartParse(stream.n).tell)
PreDecode ==
    Decodes(PreParse(stream.n, stream.raw),
            IF stream.n < PreCoreSize + 5 THEN stream.n ELSE PreCoreSize + 5)
PostDecode ==
    Decodes(PostParse(stream.n, stream.raw),
            IF stream.n < PostCoreSize + 4 + PostFlagsSize + PostTailSize
            THEN stream.n ELSE PostCoreSize + 4 + PostFlagsSize + PostTailSize)
EndDecode == Decodes(EndFields(stream.n, stream.raw), EndParse(stream.n, stream.raw.e).tell)

NextDecode ==
    \/ \E size \in FmtSizes : Unpack(size)
    \/ \E val \in EnumInputs : TryEnum(val)
    \/ StartDecode
    \/ PreDecode
    \/ PostDecode
    \/ EndDecode

SpecDecode == InitDecode /\ [][NextDecode]_vars

(***************************************************************************)
(* game.py: the Game object, whose constructor reads a whole replay file.  *)
(* _parse_file loads the file, parses the metadata tree and the payload    *)
(* table, then reads the events of the raw block one after another.  The   *)
(* source is the sequence of the events of the raw block, delivered in     *)
(* full; the payload table is the standard one.                             *)
(***************************************************************************)
\* game.py, line 10
GameFirstFrameIndex == -123

\* Game.Metadata._parse, lines 149-151: the duration of the metadata tree
GameMetadataParse(json) ==
    [present |-> TRUE,
     duration |-> IF json.has_last
                  THEN Py("int", 1 + json.lastFrame - GameFirstFrameIndex)
                  ELSE None]

\* Game._parse_event_payloads, lines 45-49, on the standard table
GameSizes == Sizes(StdPairs, Len(StdPairs))

\* Game._parse_event, lines 51-75.  Frame.Event.Id reads the frame index of a
\* Pre or Post payload; Frame.Port.Data.Pre(stream) and .Post(stream) call
\* the constructors of event.py (lines 333 and 393) with one argument.
GameDecode(e, warnings) ==
    IF e.code \notin EventType
    THEN [exc |-> IF e.code \notin warnings THEN "NameError"
                  ELSE IF e.code \notin DOMAIN GameSizes THEN "KeyError" ELSE "none",
          class |-> "None"]
    ELSE IF e.code \notin DOMAIN GameSizes THEN [exc |-> "KeyError", class |-> "None"]
    ELSE IF e.code = GAME_START
    THEN [exc |-> StartParse(GameSizes[e.code]).exc, class |-> "Start"]
    ELSE IF e.code \in { FRAME_PRE, FRAME_POST }
    THEN [exc |-> IF unpack(IdSize, GameSizes[e.code]) # "none"
                  THEN unpack(IdSize, GameSizes[e.code]) ELSE "TypeError",
          class |-> "Frame.Event"]
    ELSE IF e.code = GAME_END
    THEN [exc |-> EndParse(GameSizes[e.code], e.raw).exc, class |-> "End"]
    ELSE [exc |-> "Exception", class |-> "None"]

\* line 127: `except EofException` names nothing that is defined, so every
\* exception that reaches the try statement ends as a NameError
GameLoopExc(exc) == "NameError"

\* lines 98-101: the timeline is filled up to the index of the event
RECURSIVE GameFill(_, _, _)
GameFill(frames, frame_index, frame) ==
    IF Len(frames) > frame_index THEN frames
    ELSE GameFill(
            (IF frames = << >> THEN frames
             ELSE [frames EXCEPT ![Len(frames)] = Finalize(@)])
            \o << Frame(Len(frames) + 1, frame) >>,
            frame_index, frame)

\* lines 92-120: a frame-scoped event goes into the timeline
GameMerge(g, e, tag) ==
    LET frame_index == e.frame - GameFirstFrameIndex
        warns  == /\ ~g.out_of_order
                  /\ Len(g.frames) # frame_index
                  /\ Len(g.frames) # frame_index + 1
        frames == GameFill(g.frames, frame_index, e.frame)
        f      == frames[frame_index + 1]
        exc    == IF warns THEN "NameError"
                  ELSE IF e.port \notin PORTS THEN "IndexError"
                  ELSE IF f.final /\ ~f.ports[e.port].present THEN "TypeError"
                  ELSE "none"
    IN  IF warns
        THEN [g EXCEPT !.pc = "error", !.err = GameLoopExc(exc), !.out_of_order = TRUE]
        ELSE IF exc # "none"
        THEN [g EXCEPT !.pc = "error", !.err = GameLoopExc(exc), !.frames = frames]
        ELSE [g EXCEPT !.frames =
                 [frames EXCEPT ![frame_index + 1] =
                     MergePort(f, e.code, e.port, e.follower, tag)]]

(***************************************************************************)
(* The specification of Game(path): the files hold up to MaxGameEvents     *)
(* events.                                                                  *)
(***************************************************************************)
MaxGameEvents == 3

GameFileEvents ==
    { Ev(GAME_START, 0, 0, FALSE, 0, NoCut), Ev(GAME_END, 0, 0, FALSE, 2, NoCut),
      Ev(255, 0, 0, FALSE, 0, NoCut), Ev(ITEM, FIRST_FRAME_INDEX, 0, FALSE, 0, NoCut) }
    \cup { Ev(FRAME_PRE, FIRST_FRAME_INDEX + k, 0, FALSE, 0, NoCut) : k \in 0 .. MaxGameEvents - 1 }
    \cup { Ev(FRAME_POST, FIRST_FRAME_INDEX + k, 1, FALSE, 0, NoCut) : k \in 0 .. 1 }

RECURSIVE GameSourcesOf(_)
GameSourcesOf(n) ==
    IF n = 0 THEN { << >> }
    ELSE GameSourcesOf(n - 1)
         \cup { Append(src, e) : src \in { x \in GameSourcesOf(n - 1) : Len(x) = n - 1 },
                                 e \in GameFileEvents }

GameSources == GameSourcesOf(MaxGameEvents)

JsonInputs ==
    { [has_last |-> FALSE, lastFrame |-> 0] }
    \cup { [has_last |-> TRUE, lastFrame |-> FIRST_FRAME_INDEX + k] : k \in 0 .. MaxGameEvents - 1 }

InitGame ==
    /\ pc = "start"
    /\ handlers = {}
    /\ pos = 0
    /\ src_eof = FALSE
    /\ length = 0
    /\ payload_sizes = NoSizes
    /\ total_size = 0
    /\ bytes_read = 0
    /\ event = "None"
    /\ current_frame = NoFrame
    /\ calls = << >>
    /\ log = << >>
    /\ err = "none"
    /\ table = NoTable
    /\ consumed = << >>
    /\ created = 0
    /\ finalized = << >>
    /\ err_pos = NoPos
    /\ stream = NoStream
    /\ result = NoResult
    /\ input = File
    /\ filename = NoName
    /\ game = NoGame

\* _parse_file, lines 80-86: the file is loaded, the metadata and the table are parsed
GameParseFile(src, json) ==
    /\ game.pc = "none"
    /\ game' = [game EXCEPT !.pc = "events", !.source = src, !.json = json,
                            !.metadata = GameMetadataParse(json)]
    /\ UNCHANGED << parse_vars, log, stream, result >>

\* one iteration of the loop of _parse_file, lines 89-126
GameEvent ==
    LET e == game.source[game.read + 1]
        d == GameDecode(e, game.warnings)
        g == [game EXCEPT !.read = @ + 1]
    IN  /\ game.pc = "events"
        /\ game.read < Len(game.source)
        /\ game' = IF d.exc # "none"
                   THEN [g EXCEPT !.pc = "error", !.err = GameLoopExc(d.exc)]
                   ELSE IF d.class = "Frame.Event" THEN GameMerge(g, e, game.read + 1)
                   ELSE IF d.class = "Start" THEN [g EXCEPT !.start = game.read + 1]
                   ELSE IF d.class = "End" THEN [g EXCEPT !.end = game.read + 1]
                   ELSE g
        /\ UNCHANGED << parse_vars, log, stream, result >>

\* unpack('B') finds the raw block at its end: EOFError reaches line 127
GameEOF ==
    /\ game.pc = "events"
    /\ game.read = Len(game.source)
    /\ game' = [game EXCEPT !.pc = "error", !.err = GameLoopExc(unpack(1, 0))]
    /\ UNCHANGED << parse_vars, log, stream, result >>

NextGame ==
    \/ \E src \in GameSources, json \in JsonInputs : GameParseFile(src, json)
    \/ GameEvent
    \/ GameEOF

SpecGame == InitGame /\ [][NextGame]_vars

(***************************************************************************)
(* Vocabulary of the properties.                                           *)
(***************************************************************************)
\* the invocations of one handler, and the objects they were given
CallsOf(kind) == SelectSeq(calls, LAMBDA c : c.kind = kind)
FramesHanded == [k \in 1 .. Len(CallsOf(FRAME)) |-> CallsOf(FRAME)[k].arg]

\* the step read an event from the source; NewEvent is that event
EventRead == consumed' # consumed
NewEvent == consumed'[Len(consumed')]

\* the event loop ended by its condition, without an exception
LoopEnded == pc \in { "metadata", "done" }

(***************************************************************************)
(* C1: whenever a frame-scoped event with index i arrives while a Frame    *)
(* with index j # i is accumulated, Frame j is finalized and handed to the *)
(* FRAME handler without any data of the new event, and (the handler       *)
(* having returned) the current frame is a Frame(i) created by this step   *)
(* that holds the new event only; this for i > j and i < j alike.  The     *)
(* FRAME handler receives the Frames in the order of their finalization.   *)
(***************************************************************************)
C1_IndexChangeStep ==
    (/\ EventRead
     /\ NewEvent.class = "Frame.Event"
     /\ current_frame.open
     /\ current_frame.index # NewEvent.frame)
    => /\ finalized' = Append(finalized, [current_frame EXCEPT !.final = TRUE])
       /\ FRAME \in handlers =>
            calls' = Append(calls, [kind |-> FRAME, arg |-> [current_frame EXCEPT !.final = TRUE]])
       /\ err' # "HandlerError" =>
            /\ created' = created + 1
            /\ current_frame'.open /\ ~current_frame'.final
            /\ current_frame'.id = created'
            /\ current_frame'.index = NewEvent.frame
            /\ current_frame' \in
                 { Frame(created', NewEvent.frame),
                   Merge(Frame(created', NewEvent.frame), NewEvent.code, NewEvent.port,
                         NewEvent.follower, Len(consumed')) }

C1_HandedInOrder == FRAME \in handlers => FramesHanded = finalized

C1_FinalizeOnIndexChange == [][C1_IndexChangeStep]_vars /\ []C1_HandedInOrder

\* a rollback: the open Frame has a lower index than the Frame just handed over
C1_Witness ==
    /\ pc = "events"
    /\ FramesHanded # << >>
    /\ current_frame.open
    /\ current_frame.index < FramesHanded[Len(FramesHanded)].index
    /\ current_frame.ports[0].present

(***************************************************************************)
(* C2, as claimed: a stream whose frame-scoped events carry the indices    *)
(* -123, -122, -121, -121 produces four FRAME invocations with these       *)
(* indices in this order, the two Frames -121 carrying the two payloads.   *)
(***************************************************************************)
IndicesRead == [k \in 1 .. Len(consumed) |-> consumed[k].frame]
IndicesHanded == [k \in 1 .. Len(FramesHanded) |-> FramesHanded[k].index]

\* the content of the Data slot of Frame f that event r addresses
Slot(f, r) ==
    LET d == IF r.follower THEN f.ports[r.port].follower ELSE f.ports[r.port].leader
    IN  IF r.code = FRAME_PRE THEN d.pre ELSE d.post
SameSlot(r1, r2) == r1.code = r2.code /\ r1.port = r2.port /\ r1.follower = r2.follower

RollbackParsed == LoopEnded /\ FRAME \in handlers /\ IndicesRead = RollbackScript

C2_FourFrames ==
    RollbackParsed =>
        /\ IndicesHanded = RollbackScript
        /\ Slot(FramesHanded[3], consumed[3]) = 3
        /\ Slot(FramesHanded[4], consumed[4]) = 4

(***************************************************************************)
(* C2, amended: such a stream produces three FRAME invocations, with the   *)
(* indices -123, -122, -121; the two groups of index -121 are merged into  *)
(* one Frame, in which the slot of the resent event holds the resent       *)
(* payload and the slot of the first event holds the first payload unless  *)
(* the resend addresses the same slot.                                     *)
(***************************************************************************)
C2_ThreeFrames ==
    RollbackParsed =>
        /\ IndicesHanded = SubSeq(RollbackScript, 1, 3)
        /\ FramesHanded[3].final
        /\ Slot(FramesHanded[3], consumed[4]) = 4
        /\ Slot(FramesHanded[3], consumed[3]) =
               IF SameSlot(consumed[3], consumed[4]) THEN 4 ELSE 3

\* the resend addressed the slot of the first -121 event and replaced its payload
C2_Witness ==
    /\ pc = "done"
    /\ RollbackParsed
    /\ Len(FramesHanded) = 3
    /\ SameSlot(consumed[3], consumed[4])

(***************************************************************************)
(* C3, as claimed: when the container declares a length of 0 for the raw   *)
(* block, the events are decoded up to and including the first End event   *)
(* and the loop stops there: when the loop has ended, the last event read  *)
(* is an End event and it is the only one.                                 *)
(***************************************************************************)
C3_StopsAtFirstEnd ==
    (table # NoTable /\ length = 0 /\ LoopEnded) =>
        /\ consumed # << >>
        /\ consumed[Len(consumed)].class = "End"
        /\ \A k \in 1 .. Len(consumed) - 1 : consumed[k].class # "End"

(***************************************************************************)
(* C4: when the loop ends by its condition while a Frame is accumulated,   *)
(* that Frame is finalized and handed to the FRAME handler; hence, once    *)
(* the loop has ended without an exception, every Frame that was created   *)
(* has been handed to the FRAME handler exactly once, finalized.           *)
(***************************************************************************)
C4_LoopEndStep ==
    (pc = "events" /\ ~LoopCond /\ current_frame.open /\ pc' # pc) =>
        /\ finalized' = Append(finalized, [current_frame EXCEPT !.final = TRUE])
        /\ current_frame' = [current_frame EXCEPT !.final = TRUE]
        /\ FRAME \in handlers =>
             calls' = Append(calls, [kind |-> FRAME, arg |-> [current_frame EXCEPT !.final = TRUE]])

C4_HandedOnce ==
    (LoopEnded /\ FRAME \in handlers) =>
        /\ Len(FramesHanded) = created
        /\ \A id \in 1 .. created :
             Cardinality({ k \in 1 .. Len(FramesHanded) : FramesHanded[k].id = id }) = 1
        /\ \A k \in 1 .. Len(FramesHanded) : FramesHanded[k].final
        /\ current_frame.open => FramesHanded[Len(FramesHanded)] = current_frame

C4_OpenFrameEmittedAtEnd == [][C4_LoopEndStep]_vars /\ []C4_HandedOnce

\* the loop ended with the second Frame open, and both Frames were handed over
C4_Witness ==
    /\ pc = "done"
    /\ created = 2
    /\ Len(FramesHanded) = 2
    /\ current_frame.open /\ current_frame.final
    /\ consumed[Len(consumed)].class = "Frame.Event"

(***************************************************************************)
(* C5, as claimed: in every parse that returns normally with START and END *)
(* handlers registered, the START handler was invoked exactly once, and    *)
(* the END handler exactly once if the stream holds an End event and not   *)
(* at all otherwise, whatever the number of game-start and game-end events *)
(* of the stream.                                                          *)
(***************************************************************************)
Decoded(class) == Cardinality({ k \in 1 .. Len(consumed) : consumed[k].class = class })

C5_ExactlyOnce ==
    (pc = "done" /\ { START, END } \subseteq handlers) =>
        /\ Len(CallsOf(START)) = 1
        /\ Len(CallsOf(END)) = IF Decoded("End") > 0 THEN 1 ELSE 0

(***************************************************************************)
(* C5, amended: at every point of a parse, the START handler has been      *)
(* invoked once for each game-start event decoded so far and the END       *)
(* handler once for each game-end event decoded so far, each with the      *)
(* object decoded from that event, in the order of the stream; so that a   *)
(* parse that returns normally has invoked each handler as many times as   *)
(* the stream holds events of its kind: not at all when it holds none,     *)
(* more than once when it holds several.                                   *)
(***************************************************************************)
EventsOf(class) == SelectSeq([k \in 1 .. Len(consumed) |-> k], LAMBDA k : consumed[k].class = class)

C5_OncePerEvent ==
    /\ START \in handlers =>
         /\ Len(CallsOf(START)) = Decoded("Start")
         /\ \A k \in 1 .. Len(CallsOf(START)) : CallsOf(START)[k].arg.tag = EventsOf("Start")[k]
    /\ END \in handlers =>
         /\ Len(CallsOf(END)) = Decoded("End")
         /\ \A k \in 1 .. Len(CallsOf(END)) : CallsOf(END)[k].arg.tag = EventsOf("End")[k]

\* a stream with two game-start events: the START handler was invoked twice
C5_Witness ==
    /\ pc = "done"
    /\ { START, END } \subseteq handlers
    /\ Decoded("Start") = 2
    /\ Len(CallsOf(START)) = 2

(***************************************************************************)
(* C6: a step that handles a Start event, an End event or a skipped event  *)
(* leaves the Frame being accumulated as it is, finalizes no Frame,        *)
(* creates none and adds no invocation of the FRAME handler; and a Frame   *)
(* is finalized only by a frame-scoped event whose index differs from the  *)
(* index of the open Frame, or by the end of the loop.                     *)
(***************************************************************************)
C6_NoFrameEffect ==
    (EventRead /\ NewEvent.class \in { "Start", "End", "None" }) =>
        /\ current_frame' = current_frame
        /\ finalized' = finalized
        /\ created' = created
        /\ CallsOf(FRAME)' = CallsOf(FRAME)

C6_FinalizedOnlyBy ==
    (finalized' # finalized \/ CallsOf(FRAME)' # CallsOf(FRAME)) =>
        \/ /\ EventRead
           /\ NewEvent.class = "Frame.Event"
           /\ current_frame.open
           /\ current_frame.index # NewEvent.frame
        \/ /\ ~EventRead
           /\ pc = "events"
           /\ ~LoopCond

C6_FrameUntouched == [][C6_NoFrameEffect /\ C6_FinalizedOnlyBy]_vars

\* an End event was handled while a Frame was open, and the Frame is still open
C6_Witness ==
    /\ pc = "events"
    /\ event = "End"
    /\ END \in handlers /\ FRAME \in handlers
    /\ Len(CallsOf(END)) = 1
    /\ current_frame.open /\ ~current_frame.final
    /\ CallsOf(FRAME) = << >>

(***************************************************************************)
(* C7: when the source ends before the declared event block has been       *)
(* consumed, the parse never returns normally: it ends with an error, and  *)
(* at that point the START handler has been invoked for the Start events   *)
(* decoded and the FRAME handler for every Frame finalized, in order.  A   *)
(* source that ends right after the Start event gives one invocation of    *)
(* the START handler, no Frame, and an error.                              *)
(***************************************************************************)
Truncated == src_eof /\ pc # "start" /\ pos < HeaderSize + length

TruncatedAfterStart ==
    /\ Truncated
    /\ Len(consumed) = 1
    /\ consumed[1].class = "Start"
    /\ consumed[1].cut = NoCut

C7_NeverNormal ==
    Truncated =>
        /\ pc # "done"
        /\ pc = "error" =>
             /\ START \in handlers => Len(CallsOf(START)) = Decoded("Start")
             /\ FRAME \in handlers => FramesHanded = finalized

C7_AfterStart ==
    TruncatedAfterStart =>
        /\ pc = "error"
        /\ err = "EOFError"
        /\ CallsOf(FRAME) = << >>
        /\ START \in handlers => Len(CallsOf(START)) = 1 /\ calls[1].arg.tag = 1

\* the loop may still end by its condition; the metadata prefix is then not found
C7_ErrorStep ==
    /\ (Truncated /\ pc = "events") => pc' \in { "error", "metadata" }
    /\ (Truncated /\ pc = "metadata") => pc' = "error"

C7_TruncationRaises == []C7_NeverNormal /\ []C7_AfterStart /\ [][C7_ErrorStep]_vars

\* the source ended right after the Start event, which the START handler received
C7_Witness ==
    /\ TruncatedAfterStart
    /\ pc = "error"
    /\ START \in handlers /\ FRAME \in handlers
    /\ Len(calls) = 1
    /\ calls[1].kind = START

(***************************************************************************)
(* C8: an event whose code has a size in the payload table and is not a    *)
(* known event type, and whose payload the source holds in full, takes     *)
(* 1 + size bytes of the source, reaches no handler, leaves the frame      *)
(* state as it is and does not end the parse: the loop goes on with the    *)
(* byte after the payload.                                                 *)
(***************************************************************************)
C8_Skipped ==
    /\ EventRead
    /\ NewEvent.code \notin EventType
    /\ NewEvent.code \in DOMAIN payload_sizes
    /\ ~Short(payload_sizes[NewEvent.code], NewEvent.cut)

C8_SkipStep ==
    C8_Skipped =>
        /\ pos' = pos + 1 + payload_sizes[NewEvent.code]
        /\ bytes_read' = bytes_read + 1 + payload_sizes[NewEvent.code]
        /\ calls' = calls
        /\ log' = log
        /\ current_frame' = current_frame
        /\ finalized' = finalized
        /\ created' = created
        /\ pc' = "events"
        /\ err' = "none"
        /\ NewEvent.class = "None"

C8_UnknownEventSkipped == [][C8_SkipStep]_vars

\* an event of code 0xff was skipped and the Start event after it was decoded
C8_Witness ==
    /\ Len(consumed) = 2
    /\ consumed[1].code = 255 /\ consumed[1].class = "None"
    /\ consumed[2].class = "Start"
    /\ START \in handlers
    /\ Len(calls) = 1
    /\ calls[1].arg.tag = 2
    /\ pos = HeaderSize + StdTableBytes + (1 + 2) + (1 + 418)

(***************************************************************************)
(* C9: each violation of the schema ends the parse with an error, and no   *)
(* handler is invoked after it: (a) the code of the first event is not the *)
(* sentinel 0x35; (b) the size byte of the table less 1 is not a multiple  *)
(* of 3; (c) the code of an event has no entry in the payload table.       *)
(***************************************************************************)
C9_TableViolation ==
    (/\ table # NoTable
     /\ \/ table.code # EVENT_PAYLOADS
        \/ (table.this_size - 1) % 3 # 0)
    => /\ pc = "error"
       /\ calls = << >>
       /\ consumed = << >>

C9_CodeStep ==
    (EventRead /\ NewEvent.code \notin DOMAIN payload_sizes) =>
        /\ pc' = "error"
        /\ calls' = calls

C9_NoHandlerAfter == pc = "error" => (calls' = calls /\ pc' = "error")

C9_SchemaViolationAborts ==
    []C9_TableViolation /\ [][C9_CodeStep /\ C9_NoHandlerAfter]_vars

\* an event whose code the table lacks ended a parse that had invoked a handler
C9_Witness ==
    /\ pc = "error"
    /\ err = "ValueError"
    /\ Len(consumed) = 2
    /\ consumed[2].code \notin DOMAIN payload_sizes
    /\ Len(calls) = 1

(***************************************************************************)
(* C10: once the payload table is parsed, the size of every pair of the    *)
(* table is recorded under its code, known event type or not (the last     *)
(* pair of a code that the table repeats), and one message has been logged *)
(* for each pair whose code is not a known event type; the events read     *)
(* later add no message, so that a table with the one unknown code 0xff    *)
(* gives one message for the whole parse.                                  *)
(***************************************************************************)
UnknownPairs == { i \in 1 .. Len(table.pairs) : table.pairs[i][1] \notin EventType }

C10_Recorded ==
    table.returned =>
        /\ \A i \in 1 .. Len(table.pairs) :
             /\ table.pairs[i][1] \in DOMAIN payload_sizes
             /\ (\A j \in i + 1 .. Len(table.pairs) : table.pairs[j][1] # table.pairs[i][1])
                  => payload_sizes[table.pairs[i][1]] = table.pairs[i][2]
        /\ Len(log) = Cardinality(UnknownPairs)
        /\ { log[k].code : k \in 1 .. Len(log) } = { table.pairs[i][1] : i \in UnknownPairs }
        /\ table.pairs = StdPairs => log = << [msg |-> "ignoring unknown event type", code |-> 255] >>

C10_NoLaterMessage == EventRead => log' = log

C10_TableRetainsUnknown == []C10_Recorded /\ [][C10_NoLaterMessage]_vars

\* two events of code 0xff were skipped and the log holds the one message of the table
C10_Witness ==
    /\ pc = "events"
    /\ table.pairs = StdPairs
    /\ Len(consumed) = 2
    /\ consumed[1].code = 255 /\ consumed[1].class = "None"
    /\ consumed[2].code = 255 /\ consumed[2].class = "None"
    /\ Len(log) = 1

(***************************************************************************)
(* C11, as claimed: whenever fewer bytes are left in the stream than the   *)
(* format requires, some of them or none, unpack fails with util.EOFError  *)
(* and with no other error; when it succeeds the cursor has advanced by    *)
(* the size of the format.                                                 *)
(***************************************************************************)
C11_ShortReadIsEOF ==
    result.fn = "unpack" =>
        /\ stream.n - result.from < result.size => result.exc = "EOFError"
        /\ stream.n - result.from >= result.size =>
             /\ result.exc = "none"
             /\ stream.tell = result.from + result.size

(***************************************************************************)
(* C12, as claimed: over any sequence of calls of try_enum, the message    *)
(* for an unknown value is logged at most once for each pair of an         *)
(* enumeration and a raw value: no message stands twice in the log.        *)
(***************************************************************************)
C12_LoggedOncePerValue ==
    \A i, j \in 1 .. Len(log) : i # j => log[i] # log[j]

(***************************************************************************)
(* C13, as claimed: an integer that is no member of the enumeration of its *)
(* field does not end the parse; for the method of an End event, the event *)
(* is decoded as an End object and the parse goes on.                      *)
(***************************************************************************)
C13_UnknownEnumNonFatal ==
    \A k \in 1 .. Len(consumed) :
        (/\ consumed[k].code = GAME_END
         /\ GAME_END \in DOMAIN payload_sizes
         /\ consumed[k].cut = NoCut
         /\ consumed[k].raw \notin EndMethod)
        => /\ consumed[k].class = "End"
           /\ err # "ValueError"

(***************************************************************************)
(* C15, as claimed: in the Start object decoded from a payload that ends   *)
(* before a block of a later version, the fields of that block are None:   *)
(* the ucf of a player whose pair of toggles is missing, the tag of a      *)
(* player whose name tag is missing, is_pal and is_frozen_ps when their    *)
(* byte is missing.                                                        *)
(***************************************************************************)
C15_AbsentIsNone ==
    (result.fn = "Start" /\ result.exc = "none") =>
        /\ \A i \in PORTS :
             result.players[i].present =>
                /\ StartUcfRead(stream.n) <= i => result.players[i].ucf.type = "None"
                /\ StartTagBytes(stream.n, i) = 0 => result.players[i].tag = None
        /\ stream.n <= StartPalOffset => result.is_pal = None
        /\ stream.n <= StartPalOffset + 1 => result.is_frozen_ps = None

(***************************************************************************)
(* C16, as claimed: Post._parse gives a state_age of None exactly when the *)
(* payload ends after the fixed fields, and 0.0 when four zero bytes       *)
(* follow them; when any field of the later block is missing, flags,       *)
(* hit_stun, airborne, ground, jumps and l_cancel are None together, and   *)
(* otherwise flags, airborne and jumps are not None.                       *)
(***************************************************************************)
PostFullSize == PostCoreSize + 4 + PostFlagsSize + PostTailSize

C16_PostOptional ==
    (/\ result.fn = "Post"
     /\ stream.n >= PostCoreSize
     /\ stream.raw.e \in LCancel \cup { 0 })
    => /\ result.exc = "none"
       /\ result.state_age = None <=> stream.n = PostCoreSize
       /\ (stream.n >= PostCoreSize + 4 /\ stream.raw.v = 0) => result.state_age = Py("float", 0)
       /\ IF stream.n < PostFullSize
          THEN /\ result.flags = None /\ result.hit_stun = None /\ result.airborne = None
               /\ result.ground = None /\ result.jumps = None /\ result.l_cancel = None
          ELSE /\ result.flags # None /\ result.airborne # None /\ result.jumps # None

(***************************************************************************)
(* C17, as claimed: Pre._parse gives None for raw_analog_x and for damage  *)
(* when the payload ends before them; when they are present raw_analog_x   *)
(* is the integer of the byte and damage the number decoded, so that a     *)
(* zero is the number 0.                                                   *)
(***************************************************************************)
C17_PreOptional ==
    (result.fn = "Pre" /\ result.exc = "none") =>
        /\ stream.n = PreCoreSize => result.raw_analog_x = None /\ result.damage = None
        /\ stream.n > PreCoreSize => result.raw_analog_x = Py("int", stream.raw.v)
        /\ stream.n >= PreCoreSize + 5 => result.damage = Py("float", stream.raw.v)

(***************************************************************************)
(* C14, as claimed: when the decoding of the payload of an event fails in  *)
(* _parse_event, the position of the ParseError is the offset in the outer *)
(* stream of the start of that event, its code byte.                       *)
(***************************************************************************)
LastEvent == consumed[Len(consumed)]

\* the parse ended in the try block of _parse_event, on the event read last
DecodeFailed ==
    /\ pc = "error"
    /\ consumed # << >>
    /\ LastEvent.class = "error"
    /\ LastEvent.code \in DOMAIN payload_sizes

\* the bytes of the payload the source delivered, and the offset of the code byte
LastGot == Got(payload_sizes[LastEvent.code], LastEvent.cut)
EventStartPos == pos - LastGot - 1

C14_PosIsEventStart == DecodeFailed => err_pos = EventStartPos

(***************************************************************************)
(* C14, amended: the position of the ParseError is the offset of the byte  *)
(* after the code byte plus the offset the sub-stream of the payload had   *)
(* reached when the exception was raised: it lies after the start of the   *)
(* event and not beyond the bytes read for it.  A payload that runs out is *)
(* reported at the end of the bytes read; a method that is no member of    *)
(* End.Method is reported after the bytes End._parse has read (start + 3   *)
(* for a payload of two bytes).                                            *)
(***************************************************************************)
C14_PosInsidePayload ==
    DecodeFailed =>
        /\ EventStartPos < err_pos
        /\ err_pos <= pos
        /\ err \in { "EOFError", "struct.error" } => err_pos = pos
        /\ (LastEvent.code = GAME_END /\ err = "ValueError") =>
              err_pos = EventStartPos + 1 + (IF LastGot >= 2 THEN 2 ELSE LastGot)

\* an End event with two payload bytes and the method 4: reported at start + 3
C14_Witness ==
    /\ DecodeFailed
    /\ LastEvent.code = GAME_END
    /\ err = "ValueError"
    /\ LastGot = 2
    /\ err_pos = EventStartPos + 3

(***************************************************************************)
(* C18, as claimed: with a payload table that declares 0x36 with 100 bytes *)
(* only and an event block that holds one such event and ends, the parse   *)
(* invokes the START handler exactly once and the FRAME handler not at     *)
(* all, and does not fail.                                                 *)
(***************************************************************************)
\* the table declares 0x36 with `size` bytes, the block holds one such event and ends
OneStartBlock(size) ==
    /\ table.returned
    /\ table.pairs = StartOnlyPairs(size)
    /\ length = StartOnlyTableBytes + 1 + size
    /\ consumed # << >>

C18_OneStartNoFrame ==
    (OneStartBlock(StartPlayersOffset) /\ START \in handlers) =>
        /\ err \notin { "EOFError", "struct.error", "ValueError" }
        /\ Len(CallsOf(START)) = 1
        /\ CallsOf(FRAME) = << >>

(***************************************************************************)
(* C18, amended: a game-start event of 100 payload bytes cannot be         *)
(* decoded, for the fixed fields of Start take 320 bytes: the read of the  *)
(* first player finds the payload at its end and the parse fails there     *)
(* with a ParseError (EOFError), no handler having been invoked.  With a   *)
(* table that declares 0x36 with 320 bytes and a block of one such event,  *)
(* the event loop ends after that event without failing, the START handler *)
(* was invoked exactly once and the FRAME handler not at all.              *)
(***************************************************************************)
C18_StartNeedsCore ==
    /\ OneStartBlock(StartPlayersOffset) =>
         /\ pc = "error"
         /\ err = "EOFError"
         /\ calls = << >>
         /\ Len(consumed) = 1
         /\ err_pos = HeaderSize + StartOnlyTableBytes + 1 + StartPlayersOffset
    /\ (OneStartBlock(StartCoreSize) /\ START \in handlers) =>
         /\ err \notin { "EOFError", "struct.error", "ValueError" }
         /\ Len(consumed) = 1
         /\ Len(CallsOf(START)) = 1
         /\ CallsOf(FRAME) = << >>

\* the event of 100 bytes ended the parse before the START handler was invoked
C18_Witness ==
    /\ OneStartBlock(StartPlayersOffset)
    /\ START \in handlers
    /\ pc = "error"
    /\ calls = << >>

(***************************************************************************)
(* C19: Pre/Post events of one frame index that arrive one after another,  *)
(* each for a slot of its own, give one finalized Frame whose content is   *)
(* fixed by the set of the events, whatever their order: a port is there   *)
(* exactly when an event named it, it has a follower exactly when a        *)
(* follower event named it, every slot holds the payload of its event and  *)
(* the other slots hold nothing.                                           *)
(***************************************************************************)
\* the payload of the event of the history that addresses the slot, if any
SlotPayload(code, port, follower) ==
    LET ks == { k \in 1 .. Len(consumed) :
                  /\ consumed[k].code = code
                  /\ consumed[k].port = port
                  /\ consumed[k].follower = follower }
    IN  IF ks = {} THEN NoData ELSE CHOOSE k \in ks : TRUE

FrameOfEvents ==
    [open |-> TRUE, id |-> 1, index |-> consumed[1].frame,
     ports |-> [p \in PORTS |->
        [present |-> \E k \in 1 .. Len(consumed) : consumed[k].port = p,
         leader |-> [pre |-> SlotPayload(FRAME_PRE, p, FALSE),
                     post |-> SlotPayload(FRAME_POST, p, FALSE)],
         has_follower |-> \E k \in 1 .. Len(consumed) :
                             consumed[k].port = p /\ consumed[k].follower,
         follower |-> [pre |-> SlotPayload(FRAME_PRE, p, TRUE),
                       post |-> SlotPayload(FRAME_POST, p, TRUE)]]],
     items |-> << >>, start |-> NoData, end |-> FALSE, final |-> TRUE]

SameFrameParsed ==
    /\ LoopEnded
    /\ FRAME \in handlers
    /\ IndicesRead = SameFrameScript
    /\ \A j, k \in 1 .. Len(consumed) : j # k => ~SameSlot(consumed[j], consumed[k])

C19_OrderIndependent ==
    SameFrameParsed =>
        /\ Len(FramesHanded) = 1
        /\ FramesHanded[1] = FrameOfEvents
        /\ finalized = << FrameOfEvents >>

\* the follower of port 0 came first, then its leader, then port 3
C19_Witness ==
    /\ pc = "done"
    /\ SameFrameParsed
    /\ consumed[1].port = 0 /\ consumed[1].follower /\ consumed[1].code = FRAME_POST
    /\ consumed[2].port = 0 /\ ~consumed[2].follower /\ consumed[2].code = FRAME_PRE
    /\ consumed[3].port = 3
    /\ Len(FramesHanded) = 1

(***************************************************************************)
(* C20: when a handler given by the caller raises, the parse stops at      *)
(* once: the raising invocation is the last one of the parse, and the      *)
(* exception ends parse() as a ParseError that carries the position of the *)
(* input.                                                                  *)
(***************************************************************************)
C20_Stopped == err = "HandlerError" => pc = "error"

C20_RaiseStep ==
    (err # "HandlerError" /\ err' = "HandlerError") =>
        /\ pc' = "error"
        /\ Len(calls') > Len(calls)
        /\ SubSeq(calls', 1, Len(calls)) = calls
        /\ calls'[Len(calls')].kind \in handlers
        /\ err_pos' = pos'

C20_NothingAfter ==
    err = "HandlerError" => (calls' = calls /\ pc' = "error" /\ err' = err)

C20_HandlerRaiseStops == []C20_Stopped /\ [][C20_RaiseStep /\ C20_NothingAfter]_vars

\* the FRAME handler raised on the Frame handed over at the end of the loop
C20_Witness ==
    /\ pc = "error"
    /\ err = "HandlerError"
    /\ Len(calls) = 2
    /\ calls[1].kind = START
    /\ calls[2].kind = FRAME

(***************************************************************************)
(* C21, as claimed: a handler registered under ParseEvent.FRAME_START,     *)
(* ParseEvent.ITEM or ParseEvent.FRAME_END has been invoked once for each  *)
(* frame-start, item or frame-end event decoded from the stream so far.    *)
(***************************************************************************)
\* the event type a ParseEvent key of the frame-scoped records stands for
KeyCode(kind) ==
    IF kind = "frame_start" THEN FRAME_START
    ELSE IF kind = "item" THEN ITEM
    ELSE FRAME_END

DecodedOf(code) ==
    Cardinality({ k \in 1 .. Len(consumed) :
                    consumed[k].class = "Frame.Event" /\ consumed[k].code = code })

C21_KeysHonoured ==
    \A kind \in { "frame_start", "item", "frame_end" } :
        (kind \in handlers /\ pc # "error") =>
            Len(CallsOf(kind)) = DecodedOf(KeyCode(kind))

(***************************************************************************)
(* C22: a Frame that has been finalized is never modified again.  Its      *)
(* ports are frozen with exactly 4 slots; the Frame objects of a parse are *)
(* distinct, so that whenever the assembler still refers to a finalized    *)
(* Frame, that Frame is as it was when it was finalized, and every step    *)
(* leaves the finalized Frames and the Frames handed over as they are.  An *)
(* event that carries the index of a finalized Frame again, after a        *)
(* rollback, goes into a Frame of its own.                                 *)
(***************************************************************************)
C22_Frozen ==
    \A k \in 1 .. Len(finalized) :
        /\ finalized[k].final
        /\ DOMAIN finalized[k].ports = PORTS
        /\ \A j \in 1 .. Len(finalized) : j # k => finalized[j].id # finalized[k].id
        /\ (current_frame.open /\ current_frame.id = finalized[k].id)
              => current_frame = finalized[k]
        /\ (FRAME \in handlers /\ k <= Len(FramesHanded)) => FramesHanded[k] = finalized[k]

C22_Step ==
    /\ Len(finalized') >= Len(finalized)
    /\ \A k \in 1 .. Len(finalized) : finalized'[k] = finalized[k]
    /\ \A k \in 1 .. Len(FramesHanded) : FramesHanded'[k] = FramesHanded[k]
    /\ (current_frame.open /\ current_frame.final) =>
          \/ current_frame' = current_frame
          \/ current_frame'.id \notin { finalized[k].id : k \in 1 .. Len(finalized) }

C22_FinalizedImmutable == []C22_Frozen /\ [][C22_Step]_vars

\* the index of the first Frame came back after the second one: a third Frame holds it
C22_Witness ==
    /\ Len(consumed) = 3
    /\ Len(finalized) = 2
    /\ FRAME \in handlers
    /\ Len(FramesHanded) = 2
    /\ current_frame.open /\ ~current_frame.final
    /\ current_frame.index = finalized[1].index
    /\ current_frame.id = 3
    /\ finalized[1].items = << >>
    /\ current_frame.items # << >>

(***************************************************************************)
(* C23: every failure of the parse, in the container, in the event stream  *)
(* or in the metadata, leaves parse() as a ParseError.  Its filename is    *)
(* the name of the input when the input has one, and is not set otherwise. *)
(* Its position is the position given by _parse_event (the offset after    *)
(* the code byte plus the offset reached in the payload) when the decoding *)
(* of an event failed on a seekable input, the current offset of the input *)
(* for every other failure on a seekable input, and is not set when the    *)
(* input is not seekable.  While the parse runs none of the two is set.    *)
(***************************************************************************)
C23_ErrorSurface ==
    IF pc = "error"
    THEN /\ err # "none"
         /\ filename = IF input.named THEN "name" ELSE NoName
         /\ err_pos = IF ~input.seekable THEN NoPos
                      ELSE IF DecodeFailed
                      THEN EventStartPos + 1 + DecodeTell(LastEvent, LastGot)
                      ELSE pos
    ELSE /\ err = "none"
         /\ filename = NoName
         /\ err_pos = NoPos

\* the failure of a decoder on a BytesIO: a position before the offset of the input, no filename
C23_Witness ==
    /\ pc = "error"
    /\ ~input.named /\ input.seekable
    /\ DecodeFailed
    /\ LastEvent.code = GAME_END
    /\ err = "ValueError"
    /\ filename = NoName
    /\ err_pos = pos - 2

(***************************************************************************)
(* C24, as claimed: the duration of the metadata is lastFrame + 124 when   *)
(* the metadata tree holds lastFrame and None when it does not; and for a  *)
(* complete replay (the frame events of the file carry the indices from    *)
(* -123 to lastFrame, in order) the duration is the number of frames the   *)
(* Game holds once its constructor has read the file.                      *)
(***************************************************************************)
\* the indices of the Pre and Post events of the file, in order
RECURSIVE GameIndices(_)
GameIndices(src) ==
    IF src = << >> THEN << >>
    ELSE (IF Head(src).code \in { FRAME_PRE, FRAME_POST } THEN << Head(src).frame >> ELSE << >>)
         \o GameIndices(Tail(src))

CompleteReplay ==
    LET ix == GameIndices(game.source)
    IN  /\ ix # << >>
        /\ ix[1] = GameFirstFrameIndex
        /\ \A k \in 1 .. Len(ix) - 1 : ix[k + 1] \in { ix[k], ix[k] + 1 }
        /\ game.json.has_last
        /\ game.json.lastFrame = ix[Len(ix)]
        /\ \A k \in 1 .. Len(game.source) : game.source[k].code \in { GAME_START, GAME_END, FRAME_PRE, FRAME_POST }

GameEnded == game.pc \in { "done", "error" }

C24_DurationCountsFrames ==
    game.metadata.present =>
        /\ game.metadata.duration =
              IF game.json.has_last THEN Py("int", game.json.lastFrame + 124) ELSE None
        /\ (CompleteReplay /\ GameEnded) =>
              game.metadata.duration = Py("int", Len(game.frames))

(***************************************************************************)
(* C25, as claimed: Game.frames is a dense timeline: the entry at position *)
(* k has the index FIRST_FRAME_INDEX + k, and once a Pre or Post event of  *)
(* index i has been read the timeline has an entry at position             *)
(* i - FIRST_FRAME_INDEX, whether the file skips indices or sends an index *)
(* again.                                                                   *)
(***************************************************************************)
C25_DenseTimeline ==
    /\ \A k \in 1 .. Len(game.frames) : game.frames[k].index = GameFirstFrameIndex + k - 1
    /\ \A j \in 1 .. game.read :
          game.source[j].code \in { FRAME_PRE, FRAME_POST } =>
              /\ Len(game.frames) > game.source[j].frame - GameFirstFrameIndex
              /\ game.frames[game.source[j].frame - GameFirstFrameIndex + 1].index
                    = game.source[j].frame

(***************************************************************************)
(* C26, as claimed: an event of which the source delivers fewer payload    *)
(* bytes than the table declares is never decoded as an event: it reaches  *)
(* no handler and no Frame, whatever its type; and the bytes charged for   *)
(* the events never exceed the bytes read from the source for them.        *)
(***************************************************************************)
CutShort(r) == r.code \in DOMAIN payload_sizes /\ Short(payload_sizes[r.code], r.cut)

C26_TruncatedNotDelivered ==
    /\ \A k \in 1 .. Len(consumed) : CutShort(consumed[k]) => consumed[k].class = "error"
    /\ pc = "events" => HeaderSize + (1 + table.this_size) + bytes_read <= pos

(***************************************************************************)
(* C27, as claimed: in the Post object decoded from a payload that holds   *)
(* the 2.0.0 block, hit_stun is the number decoded when the bit HIT_STUN   *)
(* (2^25) is set in the flags decoded and None when that bit is clear;     *)
(* ground is None when airborne is true and the ground id decoded when it  *)
(* is false.                                                                *)
(***************************************************************************)
PostBlockDecoded == result.fn = "Post" /\ result.exc = "none" /\ result.flags # None

C27_HitStunGated ==
    PostBlockDecoded =>
        /\ result.hit_stun =
              IF (result.flags.val \div HIT_STUN) % 2 = 1 THEN Py("float", stream.raw.v) ELSE None
        /\ result.ground =
              IF result.airborne = Py("bool", 1) THEN None ELSE Py("int", stream.raw.ground)

(***************************************************************************)
(* C28: in a parse whose event loop ended by its condition, with a FRAME   *)
(* handler registered, the FRAME handler was invoked once for each maximal *)
(* run of consecutive frame-scoped events of equal index (the Start, End   *)
(* and skipped events in between do not split a run), the indices of the   *)
(* Frames handed over are the indices of the runs in the order of the      *)
(* stream, and no two Frames handed over one after the other bear the same *)
(* index.                                                                   *)
(***************************************************************************)
FrameScoped == SelectSeq(consumed, LAMBDA r : r.class = "Frame.Event")

RECURSIVE RunIndices(_)
RunIndices(s) ==
    IF Len(s) = 0 THEN << >>
    ELSE LET before == RunIndices(SubSeq(s, 1, Len(s) - 1))
             last   == s[Len(s)].frame
         IN  IF Len(before) > 0 /\ before[Len(before)] = last
             THEN before
             ELSE Append(before, last)

C28_FramePerRun ==
    (LoopEnded /\ FRAME \in handlers) =>
        /\ Len(CallsOf(FRAME)) = Len(RunIndices(FrameScoped))
        /\ IndicesHanded = RunIndices(FrameScoped)
        /\ \A k \in 1 .. Len(IndicesHanded) - 1 : IndicesHanded[k] # IndicesHanded[k + 1]

\* two events of one index around a Start, End or skipped event gave one Frame
C28_Witness ==
    /\ LoopEnded
    /\ FRAME \in handlers
    /\ Len(consumed) = 3
    /\ consumed[1].class = "Frame.Event"
    /\ consumed[2].class \in { "Start", "End", "None" }
    /\ consumed[3].class = "Frame.Event"
    /\ consumed[1].frame = consumed[3].frame
    /\ IndicesHanded = << consumed[1].frame >>

(***************************************************************************)
(* C29, as claimed: when the parse has ended with an error (truncation,    *)
(* schema violation, decode failure or handler exception), the Frame that  *)
(* was being accumulated has not been passed to the FRAME handler: the     *)
(* handler received exactly the Frames finalized by a change of index, one *)
(* less than there are runs of frame-scoped events.                        *)
(***************************************************************************)
Runs == RunIndices(FrameScoped)
IndexChanges == IF Len(Runs) = 0 THEN 0 ELSE Len(Runs) - 1

C29_OpenFrameNeverHanded ==
    (pc = "error" /\ FRAME \in handlers) =>
        /\ Len(CallsOf(FRAME)) = IndexChanges
        /\ IndicesHanded = SubSeq(Runs, 1, IndexChanges)

(***************************************************************************)
(* C29, amended: when an error is raised while the event loop runs (the    *)
(* end of the source at a code byte, an event code missing from the table, *)
(* a decoder or a merge that fails, a handler that raises on an event),    *)
(* the Frame being accumulated is not passed to the FRAME handler: the     *)
(* handler has received exactly the Frames finalized by a change of index, *)
(* and nothing is handed over after the error.  When the error is raised   *)
(* after the loop has ended (by the FRAME handler given the last Frame, or *)
(* in the metadata part, where the end of a truncated source may only be   *)
(* noticed), the handler has received the Frame of every run, the one open *)
(* at the end of the loop included.                                        *)
(***************************************************************************)
C29_InLoop ==
    (pc = "events" /\ LoopCond /\ pc' = "error" /\ FRAME \in handlers) =>
        /\ Len(CallsOf(FRAME)') = IndexChanges'
        /\ IndicesHanded' = SubSeq(Runs', 1, IndexChanges')
        /\ (current_frame'.open /\ ~current_frame'.final) =>
               \A k \in 1 .. Len(FramesHanded') : FramesHanded'[k].id # current_frame'.id

C29_AfterLoop ==
    (pc' = "error" /\ (pc = "metadata" \/ (pc = "events" /\ ~LoopCond)) /\ FRAME \in handlers) =>
        IndicesHanded' = Runs'

C29_Stays == pc = "error" => calls' = calls

C29_ErrorInLoopDropsOpenFrame == [][C29_InLoop /\ C29_AfterLoop /\ C29_Stays]_vars

\* the source ended after two events of different indices: the first Frame was
\* handed over, the second one holds its event and was not
C29_Witness ==
    /\ pc = "error"
    /\ FRAME \in handlers
    /\ src_eof
    /\ Len(FramesHanded) = 1
    /\ current_frame.open
    /\ ~current_frame.final
    /\ current_frame.id # FramesHanded[1].id
    /\ \E p \in PORTS : current_frame.ports[p].present

(***************************************************************************)
(* C30: a Pre or Post event whose port byte is 4 or greater is never       *)
(* merged into a Frame: the step that reads it ends the parse with an      *)
(* error, no slot of the Frame takes its data, and so every Frame passed   *)
(* to the FRAME handler (and the Frame being accumulated) has exactly the  *)
(* four port slots 0..3, each populated only by events of its own port.    *)
(***************************************************************************)
SlotData(port) ==
    { port.leader.pre, port.leader.post, port.follower.pre, port.follower.post } \ { NoData }

FourSlots(f) ==
    /\ DOMAIN f.ports = 0 .. 3
    /\ Cardinality(DOMAIN f.ports) = 4
    /\ \A p \in DOMAIN f.ports : \A d \in SlotData(f.ports[p]) : consumed[d].port = p

C30_Slots ==
    /\ \A k \in 1 .. Len(FramesHanded) : FourSlots(FramesHanded[k])
    /\ current_frame.open => FourSlots(current_frame)

C30_Step ==
    (EventRead /\ NewEvent.code \in { FRAME_PRE, FRAME_POST }
               /\ NewEvent.class = "Frame.Event" /\ NewEvent.port >= 4) =>
        /\ pc' = "error"
        /\ err' \in { "IndexError", "HandlerError" }
        /\ \A p \in DOMAIN current_frame'.ports :
               Len(consumed') \notin SlotData(current_frame'.ports[p])

C30_PortOutOfRangeAborts == []C30_Slots /\ [][C30_Step]_vars

\* a Pre event for port 4 arrived after a Frame of another index: that Frame was
\* handed over with its four slots, and the merge of the event raised
C30_Witness ==
    /\ pc = "error"
    /\ err = "IndexError"
    /\ Len(consumed) = 2
    /\ consumed[2].port = 4
    /\ consumed[2].class = "Frame.Event"
    /\ Len(FramesHanded) = 1
    /\ FramesHanded[1].ports[consumed[1].port].present
    /\ \A p \in DOMAIN current_frame.ports : ~current_frame.ports[p].present

====
